---- MODULE Spec2Model ----
(***************************************************************************)
(* Model of strip-alma-user-stats: the batch run of src/main.rs (main,     *)
(* handle_user_batch, handle_user) over the Alma client of src/alma.rs     *)
(* (get_user_ids_and_total_count, get_user_ids, get_user_details,          *)
(* update_user_details, check_error).                                      *)
(*                                                                         *)
(* The remote service is the environment: every outbound call draws its    *)
(* HTTP exchange from a small set of exchanges (transport failure, 2xx     *)
(* with a decodable or an undecodable body, 4xx/5xx with the error bodies  *)
(* check_error distinguishes).  The listing of the service is stable: the  *)
(* record at position k has id k.                                          *)
(***************************************************************************)
EXTENDS Integers, Sequences, FiniteSets, TLC

(***************************************************************************)
(* Bounds of the model.                                                    *)
(***************************************************************************)
\* largest total_record_count the service advertises
MaxTotal == 4
\* largest --from-offset given on the command line
MaxFrom == 1
\* largest --to-offset given on the command line
MaxTo == 1
\* the callers that share the client
NumCallers == 2
\* the calls the callers make at most, all together
MaxCalls == 3
\* the intervals beyond a burst over which admissions are counted
MaxWindow == 1
\* the ids of a listing document at most
MaxIds == 2
\* the error elements of an error document at most
MaxErrors == 2
\* the characters of a record identifier at most
MaxIdLen == 2
\* the statistics of a user record at most
MaxStats == 2
\* the parameters of a role of a user record at most
MaxParams == 2
\* the times handle_user is called for one id
MaxRuns == 2

\* const LIMIT: usize = 100 in main; the page size is scaled down to 2 here
\* so that a page holds few enough ids to enumerate every interleaving.
LIMIT == 2

Max(a, b) == IF a >= b THEN a ELSE b
Min(a, b) == IF a <= b THEN a ELSE b

\* every page number a run of the model can dispatch
Pages == 0 .. Max(Max(MaxFrom, MaxTo), MaxTotal \div LIMIT)

(***************************************************************************)
(* Option<usize>: None is {}, Some(n) is {n}.                              *)
(***************************************************************************)
None == {}
Some(n) == {n}
unwrap_or(o, d) == IF o = None THEN d ELSE CHOOSE n \in o : TRUE

(***************************************************************************)
(* JSON values (json::JsonValue), tagged.                                  *)
(***************************************************************************)
JNull == [t |-> "null"]
JStr(s) == [t |-> "str", v |-> s]
JArr(a) == [t |-> "arr", v |-> a]
\* JsonValue::as_str: Some(s) for a string, None otherwise
as_str(j) == IF j.t = "str" THEN Some(j.v) ELSE None

\* Strings whose case matters are sequences of characters.
UpperChar(c) ==
    CASE c = "d" -> "D"
      [] c = "r" -> "R"
      [] OTHER -> c
\* str::to_uppercase
to_uppercase(s) == [i \in 1 .. Len(s) |-> UpperChar(s[i])]

(***************************************************************************)
(* Rule configuration: the lazy_static sets read from the files named by   *)
(* CATEGORIES_TO_REMOVE and EXTERNAL_USER_GROUPS.                          *)
(***************************************************************************)
CATEGORIES_TO_REMOVE == {"FULL_PART_TIME"}
EXTERNAL_USER_GROUPS == {"ALUMNI"}

(***************************************************************************)
(* A user record, restricted to the paths handle_user reads:               *)
(*   title_value    user_details["user_title"]["value"]                    *)
(*   group_value    user_details["user_group"]["value"]                    *)
(*   user_statistic user_details["user_statistic"], each member with       *)
(*       segment_type   statistic["segment_type"]                          *)
(*       category_value statistic["category_type"]["value"]                *)
(***************************************************************************)
Stat(seg, cat) == [segment_type |-> JStr(seg), category_value |-> JStr(cat)]

\* the two sets as one process read them
Rules(categories_to_remove, external_user_groups) ==
    [CATEGORIES_TO_REMOVE |-> categories_to_remove,
     EXTERNAL_USER_GROUPS |-> external_user_groups]

\* a closure without the rule of the external groups
retain_ignoring_group(rules, statistic, user_group) ==
    IF as_str(statistic.category_value) # None
    THEN unwrap_or(as_str(statistic.category_value), "")
             \notin rules.CATEGORIES_TO_REMOVE
    ELSE TRUE

\* a closure that drops a statistic without category type
retain_requiring_category(rules, statistic, user_group) ==
    IF as_str(statistic.segment_type) = Some("Internal")
       /\ user_group \in rules.EXTERNAL_USER_GROUPS
    THEN FALSE
    ELSE /\ as_str(statistic.category_value) # None
         /\ unwrap_or(as_str(statistic.category_value), "")
                \notin rules.CATEGORIES_TO_REMOVE

\* the closure given to user_statistics.retain in handle_user, for the sets
\* the process read
retain_under(rules, statistic, user_group) ==
    IF as_str(statistic.segment_type) = Some("Internal")
       /\ user_group \in rules.EXTERNAL_USER_GROUPS
    THEN FALSE
    ELSE IF as_str(statistic.category_value) # None
         THEN unwrap_or(as_str(statistic.category_value), "")
                  \notin rules.CATEGORIES_TO_REMOVE
         ELSE TRUE

\* the closure given to user_statistics.retain in handle_user
retain_statistic(statistic, user_group) ==
    retain_under(Rules(CATEGORIES_TO_REMOVE, EXTERNAL_USER_GROUPS),
                 statistic, user_group)

\* title upper-casing of handle_user (main.rs)
uppercase_title(user_details) ==
    IF user_details.title_value.t = "str"
    THEN [user_details EXCEPT !.title_value = JStr(to_uppercase(user_details.title_value.v))]
    ELSE user_details

\* a pruning that deletes the first statistic, whatever it is
strip_first_statistic(rules, user_details) ==
    IF user_details.user_statistic.t = "arr" /\ user_details.user_statistic.v # <<>>
    THEN [user_details EXCEPT !.user_statistic = JArr(Tail(user_details.user_statistic.v))]
    ELSE user_details

RECURSIVE Reverse(_)
Reverse(seq) == IF seq = <<>> THEN <<>> ELSE Append(Reverse(Tail(seq)), Head(seq))

\* a pruning that keeps the statistics it retains in reverse order
strip_statistics_reversed(rules, user_details) ==
    LET user_group == unwrap_or(as_str(user_details.group_value), "")
        Keep(s) == IF as_str(s.segment_type) = Some("Internal")
                      /\ user_group \in rules.EXTERNAL_USER_GROUPS
                   THEN FALSE
                   ELSE IF as_str(s.category_value) # None
                        THEN unwrap_or(as_str(s.category_value), "")
                                 \notin rules.CATEGORIES_TO_REMOVE
                        ELSE TRUE
    IN  IF user_details.user_statistic.t = "arr"
        THEN [user_details EXCEPT !.user_statistic =
                  JArr(Reverse(SelectSeq(user_details.user_statistic.v, Keep)))]
        ELSE user_details

\* a pruning that also blanks the category type of the statistics it keeps
strip_statistics_blanking(rules, user_details) ==
    LET user_group == unwrap_or(as_str(user_details.group_value), "")
        Keep(s) == IF as_str(s.segment_type) = Some("Internal")
                      /\ user_group \in rules.EXTERNAL_USER_GROUPS
                   THEN FALSE
                   ELSE IF as_str(s.category_value) # None
                        THEN unwrap_or(as_str(s.category_value), "")
                                 \notin rules.CATEGORIES_TO_REMOVE
                        ELSE TRUE
        kept == IF user_details.user_statistic.t = "arr"
                THEN SelectSeq(user_details.user_statistic.v, Keep)
                ELSE <<>>
    IN  IF user_details.user_statistic.t = "arr"
        THEN [user_details EXCEPT !.user_statistic =
                  JArr([i \in 1 .. Len(kept) |->
                           [kept[i] EXCEPT !.category_value = JNull]])]
        ELSE user_details

\* the statistics pruning of handle_user, applied to the document in place,
\* for the sets the process read
strip_statistics_under(rules, user_details) ==
    LET user_group == unwrap_or(as_str(user_details.group_value), "")
        Keep(s) == retain_under(rules, s, user_group)
    IN  IF user_details.user_statistic.t = "arr"
        THEN [user_details EXCEPT !.user_statistic =
                  JArr(SelectSeq(user_details.user_statistic.v, Keep))]
        ELSE user_details

\* the statistics pruning of handle_user, applied to the document in place
strip_statistics(user_details) ==
    strip_statistics_under(Rules(CATEGORIES_TO_REMOVE, EXTERNAL_USER_GROUPS),
                           user_details)

\* the document handle_user holds after its synchronous edits
transform(user_details) == strip_statistics(uppercase_title(user_details))

(***************************************************************************)
(* handle_user of lib.rs reads more of the record:                         *)
(*   has_title      user_details has the key "user_title"                  *)
(*   title_desc     user_details["user_title"]["desc"], None when the      *)
(*                  title has no key "desc"                                *)
(*   user_role      user_details["user_role"], each member with            *)
(*       parameter      user_role["parameter"], each member with           *)
(*           value_value    param["value"]["value"]                        *)
(*           value_desc     param["value"]["desc"]                         *)
(***************************************************************************)
Param(value, desc) == [value_value |-> value, value_desc |-> desc]
Role(parameter) == [parameter |-> parameter]

\* the title rule of handle_user (lib.rs): without
\* user_details["user_title"].has_key("desc"), user_details.remove("user_title")
normalize_title(user_details) ==
    IF ~(user_details.has_title /\ user_details.title_desc # None)
    THEN [user_details EXCEPT !.has_title = FALSE, !.title_value = JNull,
                              !.title_desc = None]
    ELSE uppercase_title(user_details)

\* a closure that drops a parameter only when both conditions hold
retain_parameter_unless_both(param) ==
    \/ as_str(param.value_value) # Some("DEFAULT_CIRC_DESK")
    \/ as_str(param.value_desc) # Some("")

\* the closure given to parameters.retain in handle_user (lib.rs)
retain_parameter(param) ==
    /\ as_str(param.value_value) # Some("DEFAULT_CIRC_DESK")
    /\ as_str(param.value_desc) # Some("")

\* for user_role in user_details["user_role"].members_mut() {
\*     if let JsonValue::Array(parameters) = &mut user_role["parameter"]
prune_role_parameters(user_details) ==
    LET prune_parameters(user_role) ==
            IF user_role.parameter.t = "arr"
            THEN [user_role EXCEPT !.parameter =
                      JArr(SelectSeq(user_role.parameter.v, retain_parameter))]
            ELSE user_role
    IN  IF user_details.user_role.t = "arr"
        THEN [user_details EXCEPT !.user_role =
                  JArr([i \in 1 .. Len(user_details.user_role.v) |->
                           prune_parameters(user_details.user_role.v[i])])]
        ELSE user_details

\* the document handle_user holds after its synchronous edits, in main.rs
\* ("main") and in lib.rs ("lib"), for the sets the process read
edited(program, rules, user_details) ==
    IF program = "lib"
    THEN strip_statistics_under(rules, prune_role_parameters(normalize_title(user_details)))
    ELSE strip_statistics_under(rules, uppercase_title(user_details))

\* a comparison of the whole documents
any_field_differs(before, after) == before # after

\* a comparison that takes every fetched record for an updated one
count_always_differs(before, after) == TRUE

\* "If the count differs, the user was updated"
count_differs(before, after) ==
    /\ before.user_statistic.t = "arr"
    /\ Len(before.user_statistic.v) # Len(after.user_statistic.v)

(***************************************************************************)
(* The records the service may return for a GET.                           *)
(***************************************************************************)
RecPlain ==
    [title_value |-> JStr(<<"D", "R">>), group_value |-> JStr("STAFF"),
     user_statistic |-> JArr(<<Stat("External", "RESPONSIBILITY_CENTER"),
                               Stat("External", "EMPLOYEE_DEPT")>>)]
RecLowerTitle ==
    [title_value |-> JStr(<<"D", "r">>), group_value |-> JStr("STAFF"),
     user_statistic |-> JArr(<<Stat("External", "RESPONSIBILITY_CENTER")>>)]
RecStrip ==
    [title_value |-> JStr(<<"D", "R">>), group_value |-> JStr("STAFF"),
     user_statistic |-> JArr(<<Stat("External", "RESPONSIBILITY_CENTER"),
                               Stat("External", "FULL_PART_TIME"),
                               Stat("External", "EMPLOYEE_DEPT")>>)]
ServerRecords == {RecPlain, RecLowerTitle, RecStrip}

(***************************************************************************)
(* Results: Result<T> of the client calls, plus the unwinding of a panic.  *)
(* The payload of an Err is the anyhow error: a message, or AlmaErrors     *)
(* with its vector of AlmaError.                                           *)
(***************************************************************************)
Ok(v) == [k |-> "Ok", v |-> v]
Err(e) == [k |-> "Err", v |-> e]
\* anyhow!("... {} ... {}", status_code, content_type): the text of the
\* format string and the arguments it displays, None for one it has not
Formatted(text, status_code, content_type) ==
    [type |-> "message", text |-> text, errors |-> <<>>,
     status_code |-> status_code, content_type |-> content_type]
\* anyhow!("...") and the errors of reqwest, quick_xml and json, by message
Message(text) == Formatted(text, None, None)
\* anyhow!(AlmaErrors(alma_errors))
AlmaErrors(alma_errors) ==
    [type |-> "AlmaErrors", text |-> "", errors |-> alma_errors,
     status_code |-> None, content_type |-> None]
AlmaError(status_code, error_code, error_message, tracking_id) ==
    [status_code |-> status_code, error_code |-> error_code,
     error_message |-> error_message, tracking_id |-> tracking_id]
Panic == [k |-> "Panic", v |-> Message("unwrap on None")]

(***************************************************************************)
(* XML as quick_xml reads it: a document is the sequence of the events     *)
(* read_event returns for it, and the end of the sequence is Event::Eof.   *)
(* Malformed stands for a place where read_event returns Err.              *)
(***************************************************************************)
Attr(key, value) == [key |-> key, value |-> value]
Start(name, attrs) == [e |-> "Start", name |-> name, attrs |-> attrs, text |-> ""]
Empty(name, attrs) == [e |-> "Empty", name |-> name, attrs |-> attrs, text |-> ""]
End(name) == [e |-> "End", name |-> name, attrs |-> <<>>, text |-> ""]
Text(text) == [e |-> "Text", name |-> "", attrs |-> <<>>, text |-> text]
Malformed == [e |-> "Malformed", name |-> "", attrs |-> <<>>, text |-> ""]

\* <name>text</name>
Element(name, text) == <<Start(name, <<>>), Text(text), End(name)>>

\* Reader::read_to_end(end): skips to the End that closes the element,
\* counting the elements of the same name opened on the way
RECURSIVE read_to_end(_, _, _)
read_to_end(end, events, depth) ==
    IF events = <<>>
    THEN Err(Message("UnexpectedEof"))
    ELSE LET event == Head(events)
         IN  IF event.e = "Malformed"
             THEN Err(Message("xml"))
             ELSE IF event.e = "End" /\ event.name = end
                  THEN IF depth = 0
                       THEN Ok(Tail(events))
                       ELSE read_to_end(end, Tail(events), depth - 1)
                  ELSE IF event.e = "Start" /\ event.name = end
                       THEN read_to_end(end, Tail(events), depth + 1)
                       ELSE read_to_end(end, Tail(events), depth)

\* Reader::read_text(end): the text right after a start tag, read up to the
\* End of the element; Ok carries the text and the events left
read_text(end, events) ==
    IF events = <<>>
    THEN Err(Message("UnexpectedEof"))
    ELSE LET event == Head(events)
         IN  CASE event.e = "Text" ->
                    LET closed == read_to_end(end, Tail(events), 0)
                    IN  IF closed.k = "Ok"
                        THEN Ok([text |-> event.text, rest |-> closed.v])
                        ELSE closed
               [] event.e = "End" /\ event.name = end ->
                    Ok([text |-> "", rest |-> Tail(events)])
               [] event.e = "Malformed" -> Err(Message("xml"))
               [] OTHER -> Err(Message("TextNotFound"))

(***************************************************************************)
(* Decimal numbers in attribute values: str::parse::<usize> and Display.   *)
(***************************************************************************)
Digits == <<"0", "1", "2", "3", "4", "5", "6", "7", "8", "9">>
DigitValue(c) == CHOOSE d \in 0 .. 9 : Digits[d + 1] = c
IsDigit(c) == \E d \in 0 .. 9 : Digits[d + 1] = c

\* usize Display: the decimal digits of n
RECURSIVE to_string(_)
to_string(n) ==
    IF n < 10 THEN <<Digits[n + 1]>> ELSE Append(to_string(n \div 10), Digits[(n % 10) + 1])

RECURSIVE digits_value(_, _)
digits_value(s, acc) ==
    IF s = <<>> THEN acc ELSE digits_value(Tail(s), acc * 10 + DigitValue(Head(s)))

\* n.parse::<usize>().ok(): digits, after an optional '+'
parse_usize(s) ==
    LET digits == IF s # <<>> /\ Head(s) = "+" THEN Tail(s) ELSE s
    IN  IF digits # <<>> /\ \A i \in 1 .. Len(digits) : IsDigit(digits[i])
        THEN Some(digits_value(digits, 0))
        ELSE None

(***************************************************************************)
(* One HTTP exchange as the client sees it.  sent = FALSE is a transport   *)
(* failure of send().  content_type is the list of the parts of the header  *)
(* between ';' (empty: no header).                                         *)
(***************************************************************************)
TransportFailure == [sent |-> FALSE, status |-> 0, content_type |-> <<>>, body |-> [k |-> "none"]]
Http(status, content_type, body) ==
    [sent |-> TRUE, status |-> status, content_type |-> content_type, body |-> body]

\* an xml body, by its events
XmlBody(events) == [k |-> "xml", events |-> events]

\* the total_record_count attribute of the value n
total_attr(n) == Attr("total_record_count", to_string(n))

\* the user elements of a page, one per record: the primary_id inside its
\* user element, followed by another element and by white space
RECURSIVE user_elements(_)
user_elements(ids) ==
    IF ids = <<>>
    THEN <<>>
    ELSE <<Start("user", <<>>)>> \o Element("primary_id", Head(ids))
           \o Element("first_name", "n") \o <<End("user"), Text(" ")>>
           \o user_elements(Tail(ids))

\* the primary_id elements alone, with nothing in between
RECURSIVE id_elements(_)
id_elements(ids) ==
    IF ids = <<>>
    THEN <<>>
    ELSE Element("primary_id", Head(ids)) \o id_elements(Tail(ids))

\* the users document: outer tells how the users element is written
\* ("start": start and end tag around the records, "empty": one empty
\* element tag, "absent": the records alone), attrs are its attributes
users_document(outer, attrs, ids, style) ==
    LET records == IF style = "bare" THEN id_elements(ids) ELSE user_elements(ids)
    IN  CASE outer = "start" ->
                <<Start("users", attrs)>>
                \o (IF style = "bare" THEN <<>> ELSE <<Text(" ")>>)
                \o records \o <<End("users")>>
          [] outer = "empty" -> <<Empty("users", attrs)>>
          [] OTHER -> records

\* a listing body: what the service put into it (total: the value of the
\* attribute when it wrote a number, ids) and the document it sends
ListingDocument(outer, total_record_count, attrs, ids, style) ==
    [k |-> "listing", outer |-> outer, total |-> total_record_count, ids |-> ids,
     events |-> users_document(outer, attrs, ids, style)]

\* the listing body of a page as the service writes it
ListingBody(total_record_count, ids) ==
    ListingDocument("start", total_record_count,
                    IF total_record_count = None
                    THEN <<>>
                    ELSE <<total_attr(unwrap_or(total_record_count, 0))>>,
                    ids, "user")
\* a user document, in json
RecordBody(user_details) == [k |-> "record", doc |-> user_details]

\* one error element of an error document: each of its fields is a text
\* or is missing (None)
error_element(group) ==
    <<Start("error", <<>>)>>
    \o (IF group.errorCode = None THEN <<>>
        ELSE Element("errorCode", unwrap_or(group.errorCode, "")))
    \o (IF group.errorMessage = None THEN <<>>
        ELSE Element("errorMessage", unwrap_or(group.errorMessage, "")))
    \o (IF group.trackingId = None THEN <<>>
        ELSE Element("trackingId", unwrap_or(group.trackingId, "")))
    \o <<End("error")>>

RECURSIVE error_elements(_)
error_elements(groups) ==
    IF groups = <<>>
    THEN <<>>
    ELSE error_element(Head(groups)) \o error_elements(Tail(groups))

\* an error document in xml, by its events
XmlErrorBody(events) == XmlBody(events)

\* the web_service_result document with the given error elements; stray
\* puts an errorCode element ahead of the errorList
ErrorDocument(stray, groups) ==
    [k |-> "xml", stray |-> stray, groups |-> groups,
     events |-> <<Start("web_service_result", <<>>)>>
                \o Element("errorsExist", "true")
                \o (IF stray THEN Element("errorCode", "X") ELSE <<>>)
                \o <<Start("errorList", <<>>)>> \o error_elements(groups)
                \o <<End("errorList"), End("web_service_result")>>]
\* an error document in json: its errorList member, None when the member
\* is no object, else the values of the members of the object, in order
JsonErrorBody(error_list) == [k |-> "json_error", error_list |-> error_list]
\* the error objects of a json error document: a field that is missing
\* reads as Null
json_error_objects(groups) ==
    LET field(o) == IF o = None THEN JNull ELSE JStr(unwrap_or(o, ""))
    IN  [i \in 1 .. Len(groups) |->
            [errorCode |-> field(groups[i].errorCode),
             errorMessage |-> field(groups[i].errorMessage),
             trackingId |-> field(groups[i].trackingId)]]
\* the error document in json for the error elements of an xml error
\* document: form "array" is {"errorList":{"error":[{..},{..}]}}, the
\* repeated error element as one member holding an array; form "members"
\* is {"errorList":{"1":{..},"2":{..}}}, one member for each error
JsonErrorDocument(form, groups) ==
    [k |-> "json_error", form |-> form, groups |-> groups,
     error_list |-> IF form = "array"
                    THEN Some(<<JArr(json_error_objects(groups))>>)
                    ELSE Some(json_error_objects(groups))]
\* a body that is neither well-formed xml nor json
Garbage == [k |-> "garbage"]

\* Reader::from_str(body): the events of the text of a body; json text is
\* character data to the reader
events_of(body) ==
    CASE body.k \in {"xml", "listing"} -> body.events
      [] body.k \in {"record", "json_error"} -> <<Text("json")>>
      [] OTHER -> <<Malformed>>

\* json::parse(body): the value, or the error for a text that is no json
json_parse(body) ==
    CASE body.k = "record" -> Ok(body.doc)
      [] body.k = "json_error" -> Ok(body)
      [] OTHER -> Err(Message("json"))

\* StatusCode::is_client_error, StatusCode::is_server_error
is_client_error(status) == status >= 400 /\ status < 500
is_server_error(status) == status >= 500 /\ status < 600

\* JsonValue::to_string of a member of an error object: the text of a
\* string, "null" for a member that is not there
json_to_string(j) == IF j.t = "str" THEN j.v ELSE "null"

\* JsonValue's Index<&str>: the member of an object under a key, Null for
\* a key that is not there and for a value that is no object
index(j, key) == IF key \in DOMAIN j THEN j[key] ELSE JNull

\* alma_errors with a field of its last element set; last_mut().unwrap()
\* panics on the empty vector
set_last(alma_errors, field, text) ==
    [alma_errors EXCEPT ![Len(alma_errors)] = [@ EXCEPT ![field] = text]]

AlmaErrorField(name) ==
    CASE name = "errorCode" -> "error_code"
      [] name = "errorMessage" -> "error_message"
      [] name = "trackingId" -> "tracking_id"

\* the application/xml branch of check_error: the loop over the events,
\* alma_errors being the AlmaError values pushed so far
RECURSIVE check_error_xml(_, _, _)
check_error_xml(status_code, events, alma_errors) ==
    IF events = <<>>
    THEN Err(AlmaErrors(alma_errors))
    ELSE LET event == Head(events)
         IN  CASE event.e = "Malformed" -> Err(Message("xml"))
               [] event.e = "Start" /\ event.name = "error" ->
                    check_error_xml(status_code, Tail(events),
                                    Append(alma_errors, AlmaError(status_code, "", "", "")))
               [] event.e = "Start"
                    /\ event.name \in {"errorCode", "errorMessage", "trackingId"} ->
                    \* the text is read first (`?` returns its Err), then
                    \* last_mut().unwrap() takes the place to assign to
                    LET read == read_text(event.name, Tail(events))
                    IN  IF read.k # "Ok"
                        THEN read
                        ELSE IF alma_errors = <<>>
                             THEN Panic
                             ELSE check_error_xml(status_code, read.v.rest,
                                      set_last(alma_errors, AlmaErrorField(event.name),
                                               read.v.text))
               [] OTHER -> check_error_xml(status_code, Tail(events), alma_errors)

\* the application/json branch of check_error
check_error_json(status_code, body) ==
    LET parsed == json_parse(body)
    IN  IF parsed.k # "Ok"
        THEN parsed
        ELSE IF body.k = "json_error" /\ body.error_list # None
             THEN LET error_list == unwrap_or(body.error_list, <<>>)
                  IN  Err(AlmaErrors([i \in 1 .. Len(error_list) |->
                          AlmaError(status_code,
                                    json_to_string(index(error_list[i], "errorCode")),
                                    json_to_string(index(error_list[i], "errorMessage")),
                                    json_to_string(index(error_list[i], "trackingId")))]))
             ELSE Err(Formatted("Alma API error {}, couldn't parse error message from json body",
                                Some(status_code), None))

\* a check_error that matches the whole value of the header
check_error_whole_header(response) ==
    IF is_client_error(response.status) \/ is_server_error(response.status)
    THEN IF response.content_type = <<>>
         THEN Err(Formatted("Alma API error {} with missing content type",
                            Some(response.status), None))
         ELSE IF response.content_type = <<"application/xml">>
              THEN check_error_xml(response.status, events_of(response.body), <<>>)
              ELSE IF response.content_type = <<"application/json">>
                   THEN check_error_json(response.status, response.body)
                   ELSE Err(Formatted("Alma API error {} with unexpected content type {}",
                                      Some(response.status), Some(response.content_type)))
    ELSE Ok(response)

\* check_error: Ok(response) for a status that is no error, else the Err it
\* builds from the body, or the panic of last_mut().unwrap()
check_error(response) ==
    IF is_client_error(response.status) \/ is_server_error(response.status)
    THEN IF response.content_type = <<>>
         THEN Err(Formatted("Alma API error {} with missing content type",
                            Some(response.status), None))
         ELSE IF Head(response.content_type) = "application/xml"
              THEN check_error_xml(response.status, events_of(response.body), <<>>)
              ELSE IF Head(response.content_type) = "application/json"
                   THEN check_error_json(response.status, response.body)
                   ELSE Err(Formatted("Alma API error {} with unexpected content type {}",
                                      Some(response.status), Some(response.content_type)))
    ELSE Ok(response)

\* a find_map that takes the first attribute whose value parses, whatever
\* its key
find_total_record_count_any_key(attrs) ==
    LET parsed == {i \in 1 .. Len(attrs) : parse_usize(attrs[i].value) # None}
    IN  IF parsed = {}
        THEN None
        ELSE parse_usize(attrs[CHOOSE i \in parsed : \A j \in parsed : i <= j].value)

\* the arm of Event::Start(users): the first attribute named
\* total_record_count whose value parses as usize
RECURSIVE find_total_record_count(_)
find_total_record_count(attrs) ==
    IF attrs = <<>>
    THEN None
    ELSE IF Head(attrs).key = "total_record_count" /\ parse_usize(Head(attrs).value) # None
         THEN parse_usize(Head(attrs).value)
         ELSE find_total_record_count(Tail(attrs))

\* the loop of get_user_ids_and_total_count over the events of the body, up
\* to Event::Eof: the ids pushed and the total_record_count found
RECURSIVE read_users_and_total(_, _, _)
read_users_and_total(events, user_ids, total_record_count) ==
    IF events = <<>>
    THEN Ok([user_ids |-> user_ids, total_record_count |-> total_record_count])
    ELSE LET event == Head(events)
         IN  CASE event.e = "Malformed" -> Err(Message("xml"))
               [] event.e = "Start" /\ event.name = "users" ->
                    read_users_and_total(Tail(events), user_ids,
                                         find_total_record_count(event.attrs))
               [] event.e = "Start" /\ event.name = "primary_id" ->
                    LET read == read_text("primary_id", Tail(events))
                    IN  IF read.k = "Ok"
                        THEN read_users_and_total(read.v.rest,
                                 Append(user_ids, read.v.text), total_record_count)
                        ELSE read
               [] OTHER -> read_users_and_total(Tail(events), user_ids,
                                                total_record_count)

\* the loop of get_user_ids
RECURSIVE read_users(_, _)
read_users(events, user_ids) ==
    IF events = <<>>
    THEN Ok(user_ids)
    ELSE LET event == Head(events)
         IN  CASE event.e = "Malformed" -> Err(Message("xml"))
               [] event.e = "Start" /\ event.name = "primary_id" ->
                    LET read == read_text("primary_id", Tail(events))
                    IN  IF read.k = "Ok"
                        THEN read_users(read.v.rest, Append(user_ids, read.v.text))
                        ELSE read
               [] OTHER -> read_users(Tail(events), user_ids)

\* a get_user_ids_and_total_count that defaults a missing total to 0
get_user_ids_and_total_count_defaulting(exchange) ==
    IF ~exchange.sent
    THEN Err(Message("transport"))
    ELSE LET checked == check_error(exchange)
         IN  IF checked.k # "Ok"
             THEN checked
             ELSE LET read == read_users_and_total(events_of(exchange.body), <<>>, None)
                  IN  IF read.k # "Ok"
                      THEN read
                      ELSE Ok([user_ids |-> read.v.user_ids,
                               total_users |-> unwrap_or(read.v.total_record_count, 0)])

\* Client::get_user_ids_and_total_count, from the exchange to its Result
get_user_ids_and_total_count(exchange) ==
    IF ~exchange.sent
    THEN Err(Message("transport"))
    ELSE LET checked == check_error(exchange)
         IN  IF checked.k # "Ok"
             THEN checked
             ELSE LET read == read_users_and_total(events_of(exchange.body), <<>>, None)
                  IN  IF read.k # "Ok"
                      THEN read
                      ELSE IF read.v.total_record_count = None
                           THEN Err(Message("failed to get total record count"))
                           ELSE Ok([user_ids |-> read.v.user_ids,
                                    total_users |-> unwrap_or(read.v.total_record_count, 0)])

\* a get_user_ids that decodes like get_user_ids_and_total_count and so
\* needs the total
get_user_ids_requiring_total(exchange) ==
    LET read == get_user_ids_and_total_count(exchange)
    IN  IF read.k = "Ok" THEN Ok(read.v.user_ids) ELSE read

\* Client::get_user_ids
get_user_ids(exchange) ==
    IF ~exchange.sent
    THEN Err(Message("transport"))
    ELSE LET checked == check_error(exchange)
         IN  IF checked.k # "Ok"
             THEN checked
             ELSE read_users(events_of(exchange.body), <<>>)

\* Client::get_user_details
get_user_details(exchange) ==
    IF ~exchange.sent
    THEN Err(Message("transport"))
    ELSE LET checked == check_error(exchange)
         IN  IF checked.k # "Ok"
             THEN checked
             ELSE json_parse(exchange.body)

\* Client::update_user_details
update_user_details(exchange) ==
    IF ~exchange.sent
    THEN Err(Message("transport"))
    ELSE LET checked == check_error(exchange)
         IN  IF checked.k # "Ok" THEN checked ELSE Ok("()")

(***************************************************************************)
(* The environment: the exchanges the service can answer a call with.      *)
(***************************************************************************)
XmlType == <<"application/xml">>
JsonType == <<"application/json", "charset=UTF-8">>

\* the failures any call can meet
FailedExchanges ==
    { TransportFailure,
      Http(400, JsonType,
           JsonErrorBody(Some(<<[errorCode |-> JStr("401861"),
                                 errorMessage |-> JStr("User not found"),
                                 trackingId |-> JStr("E01")]>>))),
      Http(500, XmlType,
           XmlErrorBody(<<Start("errorList", <<>>), Start("error", <<>>)>>
                        \o Element("errorCode", "INTERNAL") \o
                        <<End("error"), End("errorList")>>)),
      Http(400, XmlType, XmlErrorBody(Element("errorCode", "X"))),
      Http(503, <<"text/html">>, Garbage),
      Http(502, <<>>, Garbage) }

\* the ids at positions offset .. offset+limit-1 of a listing of t records
Slice(t, offset, limit) ==
    [i \in 1 .. Max(0, Min(t, offset + limit) - offset) |-> offset + i - 1]

ListingExchanges(t, offset, limit) ==
    FailedExchanges \cup
    { Http(200, XmlType, ListingBody(Some(t), Slice(t, offset, limit))),
      Http(200, XmlType, ListingBody(None, Slice(t, offset, limit))),
      Http(200, XmlType, Garbage) }

RecordExchanges ==
    FailedExchanges \cup
    { Http(200, JsonType, RecordBody(r)) : r \in ServerRecords } \cup
    { Http(200, JsonType, Garbage) }

ReplaceExchanges ==
    FailedExchanges \cup { Http(200, JsonType, Garbage) }

\* a result as the tasks tell it apart: Ok with its value, Err (the error
\* itself is only written to the log), or the panic; nothing stands in
\* for the value that is not there
Observed(r, nothing) == [k |-> r.k, v |-> IF r.k = "Ok" THEN r.v ELSE nothing]

\* what get_user_details can return for GET users/{id}
RecordResults == {Observed(get_user_details(x), JNull) : x \in RecordExchanges}

\* what update_user_details can return for PUT users/{id}
ReplaceResults == {Observed(update_user_details(x), "()") : x \in ReplaceExchanges}

(***************************************************************************)
(* State.                                                                  *)
(*   mainPc        where main is: Start, ListFirstPage (the first listing  *)
(*                 call is in flight), Dispatching (the spawn loop),       *)
(*                 Collecting (the join loop), Done; Failed when main      *)
(*                 returned the Err of the first call, Panicked when it    *)
(*                 unwound                                                 *)
(*   options       Options: from_offset, to_offset                         *)
(*   server_total  the number of records the service holds                 *)
(*   last_offset, offset   the locals of main of these names               *)
(*   join_handles  the offsets pushed with their JoinHandle, in order      *)
(*   awaited       how many of join_handles the join loop has awaited      *)
(*   result        what main returned: "Ok", "Err", or "None" so far       *)
(*   tasks         per page, the spawned task: its position, the locals    *)
(*                 of handle_user_batch and the document of handle_user    *)
(* History, read by the properties only:                                   *)
(*   first_call    the listing call main made, with the exchange that      *)
(*                 answered it                                             *)
(*   calls         per page, the calls its task made, in order             *)
(*   errlog        per page, the error! lines its task wrote               *)
(*   reports       the line the join loop wrote for each handle            *)
(***************************************************************************)
VARIABLES mainPc, options, server_total, last_offset, offset, join_handles,
          awaited, result, tasks, first_call, calls, errlog, reports,
          rate_limiter, callers, recent, returned, client_call

\* the state of the run of main
runVars == <<mainPc, options, server_total, last_offset, offset, join_handles,
             awaited, result, tasks, first_call, calls, errlog, reports>>

\* the state of the client seen on its own: its rate limiter and callers,
\* and the call made last
clientVars == <<rate_limiter, callers, recent, returned, client_call>>

vars == <<runVars, clientVars>>

(***************************************************************************)
(* The rate limiter of the client (ClientData::rate_limiter, shared by     *)
(* every clone of the Client through the Arc): a direct governor           *)
(* RateLimiter with Quota::per_second, which admits a burst of max_burst   *)
(* cells and replenishes one cell per interval.  Time is counted in ticks  *)
(* and every time kept in the state is relative to now:                    *)
(*   rate_limiter  per limiter, how far its theoretical arrival time lies  *)
(*                 ahead of now (0: the bucket is full)                    *)
(*   callers       per caller, where it is in a call of the client: idle,  *)
(*                 until_ready (inside self.until_ready().await; sleep is  *)
(*                 the time left of its Delay), send (admitted, about to   *)
(*                 send the request), rejected (turned away; no code path  *)
(*                 of the client leads there); cells counts the cells the  *)
(*                 call acquired, delayed tells that it had to wait        *)
(*   returned      the calls of the callers that have returned             *)
(* History, read by the properties only:                                   *)
(*   recent        the ages of the latest admissions, the latest first     *)
(*   client_call   the call of the client made last, with its result       *)
(***************************************************************************)
\* Quota::per_second(10): a burst of 10 cells, scaled down to 2 here
MAX_BURST == 2
\* Quota::per_second(10): one cell per 100 ms, 2 ticks of 50 ms
REPLENISH_1_PER == 2
\* Jitter::up_to(Duration::from_millis(75)): less than one interval, 1 tick
JITTER_UP_TO == 1

Callers == 1 .. NumCallers

\* the operations of the client
Operations ==
    {"get_user_ids_and_total_count", "get_user_ids", "get_user_details",
     "update_user_details"}

\* a client whose clones each build a ClientData of their own
limiter_per_clone(c) == c

\* self.data.rate_limiter of the clone of the client caller c holds: the
\* one limiter behind the Arc
limiter_of(c) == 0

Limiters == {0} \cup Callers

\* the burst tolerance of the limiter: a cell conforms when the
\* theoretical arrival time is no more than this ahead of now
tau == (MAX_BURST - 1) * REPLENISH_1_PER

\* RateLimiter::check: does a cell conform now
check(tat_ahead) == tat_ahead <= tau

\* NotUntil::wait_time_from(now): how long until a cell conforms
wait_time_from(tat_ahead) == tat_ahead - tau

\* an until_ready that turns the caller away when no cell conforms
not_ready_rejects(caller, delay) == [caller EXCEPT !.pc = "rejected"]

\* until_ready_with_jitter when no cell conforms: Delay::new(jitter + wait
\* time).await, then the check again
not_ready(caller, delay) == [caller EXCEPT !.sleep = delay, !.delayed = TRUE]

\* an update_user_details that sends without self.until_ready().await
entry_unthrottled_update(op) ==
    IF op = "update_user_details" THEN "send" ELSE "until_ready"

\* every operation starts with self.until_ready().await
entry(op) == "until_ready"

IdleCaller ==
    [pc |-> "idle", op |-> "", sleep |-> 0, cells |-> 0, delayed |-> FALSE]

\* the calls begun so far: the callers that are inside a call, and the
\* calls that have returned
CallsBegun ==
    Cardinality({c \in Callers : callers[c].pc # "idle"}) + returned

\* how many of the latest admissions are remembered, and the age at which
\* an admission stops ageing
RecentLen == MAX_BURST + MaxWindow
AgeCap == MaxWindow * REPLENISH_1_PER + 1

NoCall == [client |-> "alma", op |-> "", arg |-> <<>>, path |-> <<>>, exchange |-> TransportFailure,
           result |-> Ok("()")]

\* the client before its first call
ClientAtRest ==
    /\ rate_limiter = [l \in Limiters |-> 0]
    /\ callers = [c \in Callers |-> IdleCaller]
    /\ recent = <<>>
    /\ returned = 0
    /\ client_call = NoCall

Unspawned ==
    [pc |-> "unspawned", user_ids |-> <<>>, next |-> 0, user_details |-> JNull,
     users_updated |-> 0, errors |-> 0]

Call(op, arg, limit, res, doc) ==
    [op |-> op, arg |-> arg, limit |-> limit, res |-> res, doc |-> doc]

Init ==
    /\ mainPc = "Start"
    /\ options \in [from_offset : 0 .. MaxFrom,
                    to_offset : {None} \cup {Some(n) : n \in 0 .. MaxTo}]
    /\ server_total \in 0 .. MaxTotal
    /\ last_offset = 0
    /\ offset = 0
    /\ join_handles = <<>>
    /\ awaited = 0
    /\ result = "None"
    /\ tasks = [p \in Pages |-> Unspawned]
    /\ first_call = <<>>
    /\ calls = [p \in Pages |-> <<>>]
    /\ errlog = [p \in Pages |-> <<>>]
    /\ reports = <<>>
    /\ ClientAtRest

(***************************************************************************)
(* handle_user_batch and handle_user, as steps of one task between its     *)
(* await points.                                                           *)
(***************************************************************************)
\* a loop that walks the ids from the last to the first
current_id_reversed(t) == t.user_ids[Len(t.user_ids) - t.next + 1]

\* the id the for loop of handle_user_batch is at
current_id(t) == t.user_ids[t.next]

\* the for loop moves to the next id, or handle_user_batch returns
next_user(t) ==
    IF t.next >= Len(t.user_ids)
    THEN [t EXCEPT !.pc = "done", !.user_details = JNull]
    ELSE [t EXCEPT !.pc = "fetch", !.next = @ + 1, !.user_details = JNull]

\* handle_user_batch is entered with the ids of the page
start_batch(t, user_ids) ==
    IF user_ids = <<>>
    THEN [t EXCEPT !.pc = "done", !.user_ids = user_ids]
    ELSE [t EXCEPT !.pc = "fetch", !.user_ids = user_ids, !.next = 1]

\* a match on get_user_ids that counts the failed listing as one error
after_list_counting_error(t, r) ==
    CASE r.k = "Ok" -> start_batch(t, r.v)
      [] r.k = "Err" -> [t EXCEPT !.pc = "done", !.users_updated = 0, !.errors = 1]
      [] OTHER -> [t EXCEPT !.pc = "panicked"]

\* the match on get_user_ids in the spawned block: Err gives (0, 0)
after_list(t, r) ==
    CASE r.k = "Ok" -> start_batch(t, r.v)
      [] r.k = "Err" -> [t EXCEPT !.pc = "done", !.users_updated = 0, !.errors = 0]
      [] OTHER -> [t EXCEPT !.pc = "panicked"]

\* handle_user up to its second await, and the match arm of
\* handle_user_batch when it returned before it
after_fetch(t, r) ==
    CASE r.k = "Ok" ->
            IF count_differs(r.v, transform(r.v))
            THEN [t EXCEPT !.pc = "put", !.user_details = transform(r.v)]
            ELSE next_user(t)
      [] r.k = "Err" -> next_user([t EXCEPT !.errors = @ + 1])
      [] OTHER -> [t EXCEPT !.pc = "panicked"]

\* the rest of handle_user, and the match arm of handle_user_batch
after_update(t, r) ==
    CASE r.k = "Ok" -> next_user([t EXCEPT !.users_updated = @ + 1])
      [] r.k = "Err" -> next_user([t EXCEPT !.errors = @ + 1])
      [] OTHER -> [t EXCEPT !.pc = "panicked"]

(***************************************************************************)
(* main.                                                                   *)
(***************************************************************************)
\* a last_offset that trusts --to-offset without the min
last_offset_without_min(to_offset, total_users) ==
    unwrap_or(to_offset, total_users \div LIMIT)

\* a last_offset for a spawn loop that excludes its upper end
last_offset_exclusive(to_offset, total_users) ==
    Min(unwrap_or(to_offset, total_users \div LIMIT), total_users \div LIMIT) - 1

\* let last_offset = options.to_offset.unwrap_or(total_users / LIMIT).min(total_users / LIMIT)
last_offset_of(to_offset, total_users) ==
    Min(unwrap_or(to_offset, total_users \div LIMIT), total_users \div LIMIT)

\* main up to the await of the first listing call
ListFirstPage ==
    /\ mainPc = "Start"
    /\ mainPc' = "ListFirstPage"
    /\ first_call' = <<[offset |-> options.from_offset * LIMIT, limit |-> LIMIT,
                         res |-> "pending", exchange |-> <<>>]>>
    /\ UNCHANGED <<options, server_total, last_offset, offset, join_handles,
                   awaited, result, tasks, calls, errlog, reports,
                   clientVars>>

\* the first listing call returns: `?` ends main on Err; on Ok the task of
\* the first page is spawned and last_offset is computed
FirstPageReturned ==
    /\ mainPc = "ListFirstPage"
    /\ \E x \in ListingExchanges(server_total, options.from_offset * LIMIT, LIMIT) :
         LET r == get_user_ids_and_total_count(x)
         IN  /\ first_call' = <<[first_call[1] EXCEPT !.res = r.k, !.exchange = <<x>>]>>
             /\ CASE r.k = "Ok" ->
                       /\ mainPc' = "Dispatching"
                       /\ tasks' = [tasks EXCEPT ![options.from_offset] =
                                        start_batch(@, r.v.user_ids)]
                       /\ join_handles' = <<options.from_offset>>
                       /\ last_offset' = last_offset_of(options.to_offset, r.v.total_users)
                       /\ offset' = options.from_offset + 1
                       /\ UNCHANGED result
                  [] r.k = "Err" ->
                       /\ mainPc' = "Failed"
                       /\ result' = "Err"
                       /\ UNCHANGED <<tasks, join_handles, last_offset, offset>>
                  [] OTHER ->
                       /\ mainPc' = "Panicked"
                       /\ UNCHANGED <<result, tasks, join_handles, last_offset, offset>>
    /\ UNCHANGED <<options, server_total, awaited, calls, errlog, reports,
                   clientVars>>

\* a spawn loop that tests its bound after the iteration, not before it
SpawnBatchAtLeastOnce ==
    /\ mainPc = "Dispatching"
    /\ offset <= Max(last_offset, options.from_offset + 1)
    /\ offset \in Pages
    /\ tasks' = [tasks EXCEPT ![offset] = [@ EXCEPT !.pc = "list"]]
    /\ join_handles' = Append(join_handles, offset)
    /\ offset' = offset + 1
    /\ UNCHANGED <<mainPc, options, server_total, last_offset, awaited, result,
                   first_call, calls, errlog, reports,
                   clientVars>>

\* one iteration of for offset in (from_offset + 1)..=last_offset
SpawnBatch ==
    /\ mainPc = "Dispatching"
    /\ offset <= last_offset
    /\ tasks' = [tasks EXCEPT ![offset] = [@ EXCEPT !.pc = "list"]]
    /\ join_handles' = Append(join_handles, offset)
    /\ offset' = offset + 1
    /\ UNCHANGED <<mainPc, options, server_total, last_offset, awaited, result,
                   first_call, calls, errlog, reports,
                   clientVars>>

\* a main that leaves the spawn loop at any iteration
YieldNowEarly ==
    /\ mainPc = "Dispatching"
    /\ mainPc' = "Collecting"
    /\ UNCHANGED <<options, server_total, last_offset, offset, join_handles,
                   awaited, result, tasks, first_call, calls, errlog, reports,
                   clientVars>>

\* the spawn loop is over: tokio::task::yield_now().await
YieldNow ==
    /\ mainPc = "Dispatching"
    /\ offset > last_offset
    /\ mainPc' = "Collecting"
    /\ UNCHANGED <<options, server_total, last_offset, offset, join_handles,
                   awaited, result, tasks, first_call, calls, errlog, reports,
                   clientVars>>

\* a join that only a returned task completes
join_ready_on_return_only(t) == t.pc = "done"

\* a JoinHandle is ready once its task returned or unwound
join_ready(t) == t.pc \in {"done", "panicked"}

\* a join loop that takes the default result for a task that unwound
join_report_defaulting(page, t) ==
    [offset |-> page, kind |-> "Ok", users_updated |-> t.users_updated,
     errors |-> t.errors]

\* what join_handle.await gives and the line the loop writes for it
join_report(page, t) ==
    IF t.pc = "panicked"
    THEN [offset |-> page, kind |-> "JoinError", users_updated |-> 0, errors |-> 0]
    ELSE [offset |-> page, kind |-> "Ok", users_updated |-> t.users_updated,
          errors |-> t.errors]

\* one iteration of for (offset, join_handle) in join_handles; after the
\* last one main returns Ok(())
AwaitBatch ==
    /\ mainPc = "Collecting"
    /\ awaited < Len(join_handles)
    /\ LET page == join_handles[awaited + 1]
       IN  /\ join_ready(tasks[page])
           /\ reports' = Append(reports, join_report(page, tasks[page]))
    /\ awaited' = awaited + 1
    /\ IF awaited + 1 = Len(join_handles)
       THEN mainPc' = "Done" /\ result' = "Ok"
       ELSE UNCHANGED <<mainPc, result>>
    /\ UNCHANGED <<options, server_total, last_offset, offset, join_handles,
                   tasks, first_call, calls, errlog,
                   clientVars>>

(***************************************************************************)
(* The spawned tasks.                                                      *)
(***************************************************************************)
\* the error! line written for a result, if any: "Failed to get user ids
\* for batch {offset}" or "user {user_id}" (the text of the error is left out)
error_line(kind, subject, r) ==
    IF r.k = "Err" THEN <<[kind |-> kind, subject |-> subject]>> ELSE <<>>

\* alma_client.get_user_ids(offset * LIMIT, LIMIT).await in the task of page p
GetUserIds(p) ==
    /\ tasks[p].pc = "list"
    /\ \E x \in ListingExchanges(server_total, p * LIMIT, LIMIT) :
         LET r == get_user_ids(x)
         IN  /\ tasks' = [tasks EXCEPT ![p] = after_list(@, r)]
             /\ calls' = [calls EXCEPT ![p] =
                              Append(@, Call("list", p * LIMIT, LIMIT, r.k, JNull))]
             /\ errlog' = [errlog EXCEPT ![p] = @ \o error_line("batch", p, r)]
    /\ UNCHANGED <<mainPc, options, server_total, last_offset, offset,
                   join_handles, awaited, result, first_call, reports,
                   clientVars>>

\* alma_client.get_user_details(user_id).await and the edits after it
HandleUserFetch(p) ==
    /\ tasks[p].pc = "fetch"
    /\ \E r \in RecordResults :
         LET user_id == current_id(tasks[p])
         IN  /\ tasks' = [tasks EXCEPT ![p] = after_fetch(@, r)]
             /\ calls' = [calls EXCEPT ![p] =
                              Append(@, Call("get", user_id, 0, r.k,
                                             IF r.k = "Ok" THEN r.v ELSE JNull))]
             /\ errlog' = [errlog EXCEPT ![p] = @ \o error_line("user", user_id, r)]
    /\ UNCHANGED <<mainPc, options, server_total, last_offset, offset,
                   join_handles, awaited, result, first_call, reports,
                   clientVars>>

\* alma_client.update_user_details(user_id, user_details).await
HandleUserUpdate(p) ==
    /\ tasks[p].pc = "put"
    /\ \E r \in ReplaceResults :
         LET user_id == current_id(tasks[p])
         IN  /\ tasks' = [tasks EXCEPT ![p] = after_update(@, r)]
             /\ calls' = [calls EXCEPT ![p] =
                              Append(@, Call("put", user_id, 0, r.k, tasks[p].user_details))]
             /\ errlog' = [errlog EXCEPT ![p] = @ \o error_line("user", user_id, r)]
    /\ UNCHANGED <<mainPc, options, server_total, last_offset, offset,
                   join_handles, awaited, result, first_call, reports,
                   clientVars>>

MainStep ==
    \/ ListFirstPage
    \/ FirstPageReturned
    \/ SpawnBatch
    \/ YieldNow
    \/ AwaitBatch

TaskStep(p) ==
    \/ GetUserIds(p)
    \/ HandleUserFetch(p)
    \/ HandleUserUpdate(p)

Next ==
    \/ MainStep
    \/ \E p \in Pages : TaskStep(p)

Spec == Init /\ [][Next]_vars

\* the scheduler runs every ready task and main, and every call returns
FairSpec ==
    /\ Spec
    /\ WF_vars(MainStep)
    /\ \A p \in Pages : WF_vars(TaskStep(p))

(***************************************************************************)
(* The client under concurrent callers: every call passes until_ready     *)
(* before it sends.                                                        *)
(***************************************************************************)
\* main before it runs
RunAtRest ==
    /\ mainPc = "Start"
    /\ options = [from_offset |-> 0, to_offset |-> None]
    /\ server_total = 0
    /\ last_offset = 0
    /\ offset = 0
    /\ join_handles = <<>>
    /\ awaited = 0
    /\ result = "None"
    /\ tasks = [p \in Pages |-> Unspawned]
    /\ first_call = <<>>
    /\ calls = [p \in Pages |-> <<>>]
    /\ errlog = [p \in Pages |-> <<>>]
    /\ reports = <<>>

LimiterInit == RunAtRest /\ ClientAtRest

\* a caller enters one of the operations of the client
BeginCall(c) ==
    /\ callers[c].pc = "idle"
    /\ CallsBegun < MaxCalls
    /\ \E op \in Operations :
         callers' = [callers EXCEPT ![c] =
                        [@ EXCEPT !.pc = entry(op), !.op = op, !.sleep = 0,
                                  !.cells = 0, !.delayed = FALSE]]
    /\ UNCHANGED <<runVars, rate_limiter, recent, returned, client_call>>

\* one round of the loop of until_ready_with_jitter: the check, and either
\* the cell is taken or the caller sleeps for the wait time plus a jitter
UntilReady(c) ==
    /\ callers[c].pc = "until_ready"
    /\ callers[c].sleep = 0
    /\ LET l == limiter_of(c)
       IN  IF check(rate_limiter[l])
           THEN /\ rate_limiter' = [rate_limiter EXCEPT ![l] = @ + REPLENISH_1_PER]
                /\ callers' = [callers EXCEPT ![c] =
                                  [@ EXCEPT !.pc = "send", !.cells = @ + 1]]
                /\ recent' = SubSeq(<<0>> \o recent, 1, Min(RecentLen, Len(recent) + 1))
           ELSE /\ \E jitter \in 0 .. JITTER_UP_TO :
                     callers' = [callers EXCEPT ![c] =
                                    not_ready(@, jitter + wait_time_from(rate_limiter[l]))]
                /\ UNCHANGED <<rate_limiter, recent>>
    /\ UNCHANGED <<runVars, returned, client_call>>

\* the request of the call is sent, and the call returns
Send(c) ==
    /\ callers[c].pc = "send"
    /\ callers' = [callers EXCEPT ![c] = IdleCaller]
    /\ returned' = returned + 1
    /\ UNCHANGED <<runVars, rate_limiter, recent, client_call>>

\* one tick of time passes
Tick ==
    /\ rate_limiter' = [l \in Limiters |-> Max(0, rate_limiter[l] - 1)]
    /\ callers' = [c \in Callers |->
                      [callers[c] EXCEPT !.sleep = Max(0, @ - 1)]]
    /\ recent' = [i \in 1 .. Len(recent) |-> Min(AgeCap, recent[i] + 1)]
    /\ UNCHANGED <<runVars, returned, client_call>>

CallerStep(c) ==
    \/ BeginCall(c)
    \/ UntilReady(c)
    \/ Send(c)

LimiterNext ==
    \/ \E c \in Callers : CallerStep(c)
    \/ Tick

LimiterSpec == LimiterInit /\ [][LimiterNext]_vars

\* time advances, and every caller inside a call is scheduled
FairLimiterSpec ==
    /\ LimiterSpec
    /\ WF_vars(Tick)
    /\ \A c \in Callers : WF_vars(UntilReady(c)) /\ WF_vars(Send(c))

(***************************************************************************)
(* The client call by call: one call of one operation, answered by any     *)
(* exchange of the sets below.                                             *)
(***************************************************************************)
\* the sequences over S of length at most n
SeqsUpTo(S, n) == UNION {[1 .. k -> S] : k \in 0 .. n}

\* the ids a listing document carries
ListedIds == SeqsUpTo({"u1", "u2"}, MaxIds)

\* the attributes of the users element, with the total they stand for
TotalAttrs ==
    {[total |-> Some(n), attrs |-> <<total_attr(n)>>] : n \in {0, 7, 120}}
    \cup {[total |-> Some(7), attrs |-> <<Attr("xmlns", <<"x">>), total_attr(7)>>]}
    \cup {[total |-> None, attrs |-> a] :
             a \in {<<>>, <<Attr("total_record_count", <<"x">>)>>,
                    <<Attr("total_record_count", <<"-", "1">>)>>,
                    <<Attr("total_record_count", <<>>)>>,
                    <<Attr("xmlns", <<"7">>)>>}}

\* the listing bodies
ListingDocuments ==
    {ListingDocument("start", t.total, t.attrs, ids, style) :
        t \in TotalAttrs, ids \in ListedIds, style \in {"bare", "user"}}
    \cup {ListingDocument("empty", t.total, t.attrs, <<>>, "bare") : t \in TotalAttrs}
    \cup {ListingDocument("absent", None, <<>>, ids, style) :
             ids \in ListedIds, style \in {"bare", "user"}}

\* the error elements of the error documents
ErrorGroups ==
    {[errorCode |-> Some("401861"), errorMessage |-> Some("User not found"),
      trackingId |-> Some("E01")],
     [errorCode |-> Some("INTERNAL"), errorMessage |-> None, trackingId |-> None],
     [errorCode |-> None, errorMessage |-> None, trackingId |-> None]}

ErrorDocuments ==
    {ErrorDocument(stray, groups) :
        stray \in BOOLEAN, groups \in SeqsUpTo(ErrorGroups, MaxErrors)}

JsonErrorMembers ==
    {[errorCode |-> JStr("401861"), errorMessage |-> JStr("User not found"),
      trackingId |-> JStr("E01")],
     [errorCode |-> JStr("INTERNAL"), errorMessage |-> JNull, trackingId |-> JNull]}

JsonErrorBodies ==
    {JsonErrorBody(None)}
    \cup {JsonErrorBody(Some(members)) : members \in SeqsUpTo(JsonErrorMembers, MaxErrors)}
    \cup {JsonErrorDocument(form, groups) :
             form \in {"array", "members"}, groups \in SeqsUpTo(ErrorGroups, MaxErrors)}

\* the bodies a response can carry
Bodies ==
    ErrorDocuments \cup JsonErrorBodies
    \cup {Garbage, XmlBody(<<Start("users", <<total_attr(7)>>), Malformed>>),
          RecordBody(RecStrip), ListingBody(Some(7), <<"u1">>)}

\* one body of each kind
FewBodies ==
    {Garbage, RecordBody(RecStrip), ListingBody(Some(7), <<"u1">>),
     ErrorDocument(FALSE, <<CHOOSE g \in ErrorGroups : g.trackingId # None>>),
     JsonErrorBody(Some(<<CHOOSE m \in JsonErrorMembers : m.trackingId # JNull>>))}

ContentTypes ==
    {<<>>, XmlType, <<"application/xml", "charset=UTF-8">>, <<"application/json">>,
     JsonType, <<"text/html">>}

\* statuses on both sides of the 4xx and 5xx ranges
ErrorStatuses == {400, 499, 500, 599}
OtherStatuses == {200, 204, 399, 600}

\* the exchanges that can answer any call
Responses ==
    {TransportFailure}
    \cup {Http(status, content_type, body) :
             status \in ErrorStatuses, content_type \in {XmlType, JsonType}, body \in Bodies}
    \cup {Http(status, content_type, body) :
             status \in ErrorStatuses, content_type \in ContentTypes, body \in FewBodies}
    \cup {Http(status, content_type, body) :
             status \in OtherStatuses, content_type \in {XmlType, JsonType},
             body \in FewBodies}

ListingResponses ==
    Responses \cup {Http(200, XmlType, body) : body \in ListingDocuments}

RecordResponses ==
    Responses \cup {Http(200, JsonType, RecordBody(r)) : r \in ServerRecords}

\* the record identifiers, as characters
UserIds == SeqsUpTo({"a", "#"}, MaxIdLen) \ {<<>>}

\* the part of a relative reference that Url::join takes as the path: a
\* '#' starts the fragment, which is not part of the request
RECURSIVE before_fragment(_)
before_fragment(chars) ==
    IF chars = <<>> \/ Head(chars) = "#"
    THEN <<>>
    ELSE <<Head(chars)>> \o before_fragment(Tail(chars))

\* user_id.replace("#", "%23")
RECURSIVE replace_hash(_)
replace_hash(chars) ==
    IF chars = <<>>
    THEN <<>>
    ELSE (IF Head(chars) = "#" THEN <<"%", "2", "3">> ELSE <<Head(chars)>>)
         \o replace_hash(Tail(chars))

\* the two clients of the repository: alma.rs (of main.rs) and lib.rs
Clients == {"alma", "lib"}

\* format!("users/{}", ...): alma.rs inserts the id as it is, lib.rs inserts
\* user_id.replace("#", "%23")
users_reference(client, user_id) ==
    <<"u", "s", "e", "r", "s", "/">>
    \o (IF client = "lib" THEN replace_hash(user_id) ELSE user_id)

\* self.data.base_url.join(...): the path of the url the request is sent
\* to, below the base url
user_path(client, user_id) == before_fragment(users_reference(client, user_id))

\* "users?order_by=primary_id&limit={}&offset={}"
listing_path == <<"u", "s", "e", "r", "s">>

Pending == [k |-> "Pending", v |-> Message("")]

Request(client, op, arg, exchange) ==
    [client |-> client, op |-> op, arg |-> arg, path |-> <<>>, exchange |-> exchange, result |-> Pending]

\* a client about to make one call
ClientInit ==
    /\ RunAtRest
    /\ rate_limiter = [l \in Limiters |-> 0]
    /\ callers = [c \in Callers |-> IdleCaller]
    /\ recent = <<>>
    /\ returned = 0
    /\ \E client \in Clients :
          \/ \E op \in {"get_user_ids_and_total_count", "get_user_ids"},
                x \in ListingResponses :
                client_call = Request(client, op, <<>>, x)
          \/ \E user_id \in UserIds, x \in RecordResponses :
                client_call = Request(client, "get_user_details", user_id, x)
          \/ \E user_id \in UserIds, x \in Responses :
                client_call = Request(client, "update_user_details", user_id, x)

\* the cell the call takes from the full bucket in until_ready
TakeCell ==
    /\ rate_limiter' = [rate_limiter EXCEPT ![limiter_of(1)] = @ + REPLENISH_1_PER]
    /\ recent' = <<0>>
    /\ returned' = returned + 1
    /\ UNCHANGED <<runVars, callers>>

CallGetUserIdsAndTotalCount ==
    /\ client_call.op = "get_user_ids_and_total_count"
    /\ client_call.result.k = "Pending"
    /\ client_call' = [client_call EXCEPT
                          !.path = listing_path,
                          !.result = get_user_ids_and_total_count(client_call.exchange)]
    /\ TakeCell

CallGetUserIds ==
    /\ client_call.op = "get_user_ids"
    /\ client_call.result.k = "Pending"
    /\ client_call' = [client_call EXCEPT
                          !.path = listing_path,
                          !.result = get_user_ids(client_call.exchange)]
    /\ TakeCell

CallGetUserDetails ==
    /\ client_call.op = "get_user_details"
    /\ client_call.result.k = "Pending"
    /\ client_call' = [client_call EXCEPT
                          !.path = user_path(client_call.client, client_call.arg),
                          !.result = get_user_details(client_call.exchange)]
    /\ TakeCell

CallUpdateUserDetails ==
    /\ client_call.op = "update_user_details"
    /\ client_call.result.k = "Pending"
    /\ client_call' = [client_call EXCEPT
                          !.path = user_path(client_call.client, client_call.arg),
                          !.result = update_user_details(client_call.exchange)]
    /\ TakeCell

ClientNext ==
    \/ CallGetUserIdsAndTotalCount
    \/ CallGetUserIds
    \/ CallGetUserDetails
    \/ CallUpdateUserDetails

ClientSpec == ClientInit /\ [][ClientNext]_vars

(***************************************************************************)
(* Properties.                                                             *)
(***************************************************************************)
\* the i-th call of page p is a GET whose handle_user has returned or unwound
FinishedGet(p, i) ==
    /\ calls[p][i].op = "get"
    /\ i < Len(calls[p]) \/ tasks[p].pc # "put"

\* the call after the i-th call of page p is the PUT for the same id
PutFollows(p, i) ==
    /\ i < Len(calls[p])
    /\ calls[p][i + 1].op = "put"
    /\ calls[p][i + 1].arg = calls[p][i].arg

\* C1 as stated: for every id handle_user has processed, a PUT for that id
\* was issued if and only if the fetch succeeded and the transform changed
\* the record (the document after the edits differs from the one fetched).
C1_PutIffRecordChanged ==
    \A p \in Pages : \A i \in 1 .. Len(calls[p]) :
        FinishedGet(p, i) =>
            (PutFollows(p, i) <=>
                (calls[p][i].res = "Ok" /\ transform(calls[p][i].doc) # calls[p][i].doc))

\* C1 amended: for every id handle_user has processed, a PUT for that id
\* was issued if and only if the fetch succeeded and the transform removed at
\* least one statistic entry; the PUT carries the edited document.  A record
\* whose title alone was upper-cased is not written back.
C1_PutIffStatisticRemoved ==
    \A p \in Pages : \A i \in 1 .. Len(calls[p]) :
        FinishedGet(p, i) =>
            /\ PutFollows(p, i) <=>
                  /\ calls[p][i].res = "Ok"
                  /\ transform(calls[p][i].doc).user_statistic # calls[p][i].doc.user_statistic
            /\ PutFollows(p, i) => calls[p][i + 1].doc = transform(calls[p][i].doc)

\* C1 witness: a fetched record with a statistic to remove was written
\* back, while a fetched record with a lower-case title only and a failed
\* fetch were not followed by a PUT.
C1_Witness ==
    /\ \E p \in Pages : \E i \in 1 .. Len(calls[p]) :
          /\ FinishedGet(p, i) /\ calls[p][i].res = "Ok" /\ calls[p][i].doc = RecStrip
          /\ PutFollows(p, i)
    /\ \E p \in Pages : \E i \in 1 .. Len(calls[p]) :
          /\ FinishedGet(p, i) /\ calls[p][i].res = "Ok"
          /\ calls[p][i].doc = RecLowerTitle
          /\ ~PutFollows(p, i)
    /\ \E p \in Pages : \E i \in 1 .. Len(calls[p]) :
          /\ FinishedGet(p, i) /\ calls[p][i].res = "Err"
          /\ ~PutFollows(p, i)

\* the task of page p has returned from handle_user_batch or unwound
Terminated(p) == tasks[p].pc \in {"done", "panicked"}

\* the positions in calls[p] of the calls of kind op
CallsOf(p, op) == {i \in 1 .. Len(calls[p]) : calls[p][i].op = op}

\* the ids of page p handle_user returned Ok(false) for
UnchangedIds(p) ==
    {i \in CallsOf(p, "get") : calls[p][i].res = "Ok" /\ ~PutFollows(p, i)}

\* the ids of page p whose fetch or replace did not succeed
FailedIds(p) ==
    {calls[p][i].arg : i \in {j \in CallsOf(p, "get") \cup CallsOf(p, "put") :
                                  calls[p][j].res # "Ok"}}

\* C2 as stated: once the task of a page of n ids has ended, all n ids were
\* attempted, updated + unchanged + errors = n, errors is the number of ids
\* whose processing failed, and each failure is recorded against its id.
C2_AllIdsAttemptedAndCounted ==
    \A p \in Pages :
        Terminated(p) =>
            LET t == tasks[p]
                n == Len(t.user_ids)
            IN  /\ \A k \in 1 .. n :
                      \E i \in CallsOf(p, "get") : calls[p][i].arg = t.user_ids[k]
                /\ t.users_updated + Cardinality(UnchangedIds(p)) + t.errors = n
                /\ t.errors = Cardinality(FailedIds(p))
                /\ \A id \in FailedIds(p) :
                      \E l \in 1 .. Len(errlog[p]) :
                          errlog[p][l] = [kind |-> "user", subject |-> id]

\* the first listing call failed: transport error, API error, a body that
\* is no listing, or a listing without total_record_count
FirstListingFailed ==
    /\ first_call # <<>>
    /\ first_call[1].exchange # <<>>
    /\ LET x == first_call[1].exchange[1]
       IN  \/ ~x.sent
           \/ is_client_error(x.status) \/ is_server_error(x.status)
           \/ x.body.k # "listing"
           \/ x.body.total = None

\* C3: if the first listing call fails, the run has ended (with the Err of
\* the call when it returned one), no task was spawned and no task made any
\* call: no getRecord and no replaceRecord is ever issued.
C3_FirstListingFailureIsFatal ==
    FirstListingFailed =>
        /\ mainPc \in {"Failed", "Panicked"}
        /\ first_call[1].res = "Err" => (mainPc = "Failed" /\ result = "Err")
        /\ join_handles = <<>>
        /\ reports = <<>>
        /\ \A p \in Pages : tasks[p].pc = "unspawned" /\ calls[p] = <<>>

\* C3 witness: the first listing was answered 200 with a listing that has
\* no total_record_count, and main returned the error.
C3_Witness ==
    /\ FirstListingFailed
    /\ first_call[1].exchange[1].sent
    /\ first_call[1].exchange[1].status = 200
    /\ first_call[1].exchange[1].body.k = "listing"
    /\ first_call[1].exchange[1].body.ids # <<>>
    /\ mainPc = "Failed"

\* the total T the first listing returned
FirstTotal == unwrap_or(first_call[1].exchange[1].body.total, 0)

\* lastPage of the claims: min(to, T div L), T div L when `to` is absent
ClaimedLastPage ==
    IF options.to_offset = None
    THEN FirstTotal \div LIMIT
    ELSE Min(unwrap_or(options.to_offset, 0), FirstTotal \div LIMIT)

\* page `from`, then each page of [from + 1, lastPage], in this order
ClaimedPages ==
    [i \in 1 .. 1 + Max(0, ClaimedLastPage - options.from_offset) |->
        options.from_offset + i - 1]

IsPrefix(a, b) == Len(a) <= Len(b) /\ a = SubSeq(b, 1, Len(a))

\* C4: the pages dispatched are page `from` (with the ids the first listing
\* returned and no listing call of its own) and each page of
\* [from + 1, min(to, T div L)], each exactly once and no other page; the
\* task of each later page p calls listIds(p * L, L), once, as its first call.
C4_PagesDispatched ==
    /\ mainPc = "Dispatching" => IsPrefix(join_handles, ClaimedPages)
    /\ mainPc \in {"Collecting", "Done"} => join_handles = ClaimedPages
    /\ \A i, j \in 1 .. Len(join_handles) : join_handles[i] = join_handles[j] => i = j
    /\ \A p \in Pages :
          /\ tasks[p].pc # "unspawned" <=> \E i \in 1 .. Len(join_handles) : join_handles[i] = p
          /\ (tasks[p].pc # "unspawned" /\ p = options.from_offset) =>
                /\ CallsOf(p, "list") = {}
                /\ tasks[p].user_ids = first_call[1].exchange[1].body.ids
          /\ (tasks[p].pc \notin {"unspawned", "list"} /\ p # options.from_offset) =>
                /\ CallsOf(p, "list") = {1}
                /\ calls[p][1].arg = p * LIMIT
                /\ calls[p][1].limit = LIMIT

\* C4 witness: from = 0, to = 1 and T = 4, so that min(to, T div L) is the
\* explicit end: the run is done and dispatched pages 0 and 1 only.
C4_Witness ==
    /\ mainPc = "Done"
    /\ options.from_offset = 0
    /\ options.to_offset = Some(1)
    /\ FirstTotal = 4
    /\ join_handles = <<0, 1>>
    /\ CallsOf(1, "list") = {1}

\* the record positions of the offset/limit slices page p requested
RequestedSlice(p) ==
    UNION ( {calls[p][i].arg .. calls[p][i].arg + calls[p][i].limit - 1 :
                 i \in CallsOf(p, "list")}
            \cup {first_call[1].offset .. first_call[1].offset + first_call[1].limit - 1 :
                      q \in {options.from_offset} \cap {p}} )

\* how many times position k occurs among the ids page p was given
Occurrences(p, k) ==
    Cardinality({i \in 1 .. Len(tasks[p].user_ids) : tasks[p].user_ids[i] = k})

\* every listing call of the run succeeded
AllListed ==
    \A p \in Pages : \A i \in CallsOf(p, "list") : calls[p][i].res = "Ok"

\* every call of every task succeeded
AllCallsOk ==
    \A p \in Pages : \A i \in 1 .. Len(calls[p]) : calls[p][i].res = "Ok"

\* the record positions the claim says are covered
ClaimedRange ==
    options.from_offset * LIMIT ..
        Min((ClaimedLastPage + 1) * LIMIT, FirstTotal) - 1

\* C5: once the run is done, the slices requested for the pages of
\* [from, min(to, T div L)] are pairwise disjoint and contain every record
\* position from from * L up to the end of the last page or T (all of
\* 0 .. T - 1 when from = 0 and no end is given); when the listings
\* succeeded each of these records was listed exactly once, and when every
\* call succeeded each was fetched exactly once.
C5_PaginationCoverage ==
    mainPc = "Done" =>
        LET range == options.from_offset .. ClaimedLastPage
        IN  /\ \A p, q \in range :
                  p # q => RequestedSlice(p) \cap RequestedSlice(q) = {}
            /\ range # {} => ClaimedRange \subseteq UNION {RequestedSlice(p) : p \in range}
            /\ (options.from_offset = 0 /\ options.to_offset = None) =>
                  0 .. FirstTotal - 1 \subseteq UNION {RequestedSlice(p) : p \in range}
            /\ (AllListed /\ range # {}) =>
                  \A k \in ClaimedRange :
                      /\ \E p \in range : Occurrences(p, k) = 1
                      /\ \A p, q \in Pages :
                            (Occurrences(p, k) > 0 /\ Occurrences(q, k) > 0) => p = q
            /\ (AllCallsOk /\ range # {}) =>
                  \A k \in ClaimedRange :
                      Cardinality({pi \in {<<p, i>> : p \in Pages, i \in 1 .. 2 * LIMIT + 1} :
                                      /\ pi[2] \in CallsOf(pi[1], "get")
                                      /\ calls[pi[1]][pi[2]].arg = k}) = 1

\* C5 witness: a run over all of T = 3 records (from = 0, no end) is done,
\* every call succeeded, and pages 0 and 1 fetched records 0, 1 and 2.
C5_Witness ==
    /\ mainPc = "Done"
    /\ options.from_offset = 0
    /\ options.to_offset = None
    /\ FirstTotal = 3
    /\ AllCallsOk
    /\ tasks[0].user_ids = <<0, 1>>
    /\ tasks[1].user_ids = <<2>>
    /\ Cardinality(CallsOf(0, "get")) = 2
    /\ Cardinality(CallsOf(1, "get")) = 1

\* the listing call of the task of page p returned Err
ListingFailed(p) ==
    \E i \in CallsOf(p, "list") : calls[p][i].res = "Err"

\* the line the join loop wrote for page p, as a set (empty: none yet)
ReportsOf(p) == {reports[i] : i \in {j \in 1 .. Len(reports) : reports[j].offset = p}}

\* C6 as stated: when listIds fails for a page after the first, the run
\* still collects every page, and the result of the failed page reports
\* zero updates and exactly one error.
C6_FailedPageReportsOneError ==
    mainPc = "Done" =>
        /\ \A i \in 1 .. Len(join_handles) : ReportsOf(join_handles[i]) # {}
        /\ \A p \in Pages :
              ListingFailed(p) =>
                  \A rep \in ReportsOf(p) :
                      rep.kind = "Ok" /\ rep.users_updated = 0 /\ rep.errors = 1

\* C6 amended: when listIds fails for a page after the first, that task
\* makes no further call and returns (0, 0): its result reports zero updates
\* and zero errors, the failure being recorded once, as one error line
\* written for that page; the other pages are still processed and the run
\* collects a report for every page.
C6_FailedPageReportsNoUpdate ==
    /\ \A p \in Pages :
          ListingFailed(p) =>
              /\ p # options.from_offset
              /\ tasks[p].pc = "done"
              /\ tasks[p].users_updated = 0 /\ tasks[p].errors = 0
              /\ Len(calls[p]) = 1
              /\ errlog[p] = <<[kind |-> "batch", subject |-> p]>>
              /\ \A rep \in ReportsOf(p) :
                    rep.kind = "Ok" /\ rep.users_updated = 0 /\ rep.errors = 0
    /\ mainPc = "Done" =>
          \A i \in 1 .. Len(join_handles) :
              /\ Terminated(join_handles[i])
              /\ Cardinality(ReportsOf(join_handles[i])) = 1

\* C6 witness: the run is done; the listing of page 1 failed, page 0 was
\* processed with an update and page 2, spawned after page 1, was listed.
C6_Witness ==
    /\ mainPc = "Done"
    /\ ListingFailed(1)
    /\ tasks[0].users_updated > 0
    /\ CallsOf(2, "list") # {} /\ ~ListingFailed(2) /\ tasks[2].pc = "done"
    /\ Len(reports) = 3

\* C7: the join loop awaits the handles in the order they were pushed; the
\* report of a task that unwound is a JoinError for its page, that of a task
\* that returned is its (updated, errors) result, and once the run is done
\* every handle has been awaited and reported, whatever the tasks did.
C7_EveryTaskAwaited ==
    /\ Len(reports) = awaited
    /\ awaited <= Len(join_handles)
    /\ \A i \in 1 .. Len(reports) :
          LET t == tasks[join_handles[i]]
          IN  /\ reports[i].offset = join_handles[i]
              /\ reports[i].kind = "JoinError" <=> t.pc = "panicked"
              /\ reports[i].kind = "Ok" <=> t.pc = "done"
              /\ reports[i].kind = "Ok" =>
                    /\ reports[i].users_updated = t.users_updated
                    /\ reports[i].errors = t.errors
    /\ mainPc = "Done" => awaited = Len(join_handles)

\* C7 witness: the run is done, the task of the first handle unwound and was
\* reported as a JoinError, and a later handle was still awaited and
\* reported with a result that carries an error of its own.
C7_Witness ==
    /\ mainPc = "Done"
    /\ Len(reports) >= 2
    /\ reports[1].kind = "JoinError"
    /\ reports[2].kind = "Ok"
    /\ reports[2].errors > 0

\* C8: once the first listing call has succeeded, the run eventually is
\* Done, main has returned Ok and every dispatched page has been reported.
C8_RunCompletes ==
    (mainPc = "Dispatching") ~>
        (mainPc = "Done" /\ result = "Ok" /\ Len(reports) = Len(join_handles))

\* C8 witness: the run is Done with Ok although one task recorded a failed
\* id, the listing of another page failed and a third task unwound.
C8_Witness ==
    /\ mainPc = "Done"
    /\ result = "Ok"
    /\ \E p \in Pages : tasks[p].errors > 0
    /\ \E p \in Pages : ListingFailed(p)
    /\ \E p \in Pages : tasks[p].pc = "panicked"

\* the calls of kind op page p made for id
CallsFor(p, op, id) == {i \in CallsOf(p, op) : calls[p][i].arg = id}

\* C9 as stated: once the task of a page has ended it has issued at most
\* one listing call, and each id it listed has triggered exactly one
\* getRecord call and at most one replaceRecord call; a failed id is
\* reported against that id.
C9_ExactlyOneFetchPerId ==
    \A p \in Pages :
        Terminated(p) =>
            /\ Cardinality(CallsOf(p, "list")) <= 1
            /\ \A k \in 1 .. Len(tasks[p].user_ids) :
                  /\ Cardinality(CallsFor(p, "get", tasks[p].user_ids[k])) = 1
                  /\ Cardinality(CallsFor(p, "put", tasks[p].user_ids[k])) <= 1
            /\ \A id \in FailedIds(p) :
                  \E l \in 1 .. Len(errlog[p]) :
                      errlog[p][l] = [kind |-> "user", subject |-> id]

\* C10: in the calls of one task a listing call can only be the first; the
\* k-th GET is for the k-th id the listing returned; and every PUT comes
\* directly after the GET of the same id, which returned Ok: so no GET for a
\* later id is issued before the processing of the id before it has ended.
C10_InPageOrder ==
    \A p \in Pages :
        /\ CallsOf(p, "list") \subseteq {1}
        /\ \A i \in CallsOf(p, "get") :
              LET k == Cardinality({j \in CallsOf(p, "get") : j <= i})
              IN  /\ k <= Len(tasks[p].user_ids)
                  /\ calls[p][i].arg = tasks[p].user_ids[k]
        /\ \A i \in CallsOf(p, "put") :
              /\ i > 1
              /\ calls[p][i - 1].op = "get"
              /\ calls[p][i - 1].arg = calls[p][i].arg
              /\ calls[p][i - 1].res = "Ok"
        /\ tasks[p].pc = "put" =>
              /\ calls[p] # <<>>
              /\ calls[p][Len(calls[p])].op = "get"
              /\ calls[p][Len(calls[p])].arg = tasks[p].user_ids[tasks[p].next]

\* C10 witness: page 1 fetched and replaced id 2, then fetched and replaced
\* id 3, all before page 0, spawned first, made its first call.
C10_Witness ==
    /\ Len(calls[1]) = 5
    /\ calls[1][2].op = "get" /\ calls[1][2].arg = 2
    /\ calls[1][3].op = "put" /\ calls[1][3].arg = 2
    /\ calls[1][4].op = "get" /\ calls[1][4].arg = 3
    /\ calls[1][5].op = "put" /\ calls[1][5].arg = 3
    /\ tasks[0].pc = "fetch"
    /\ calls[0] = <<>>

\* C11: each of the four operations acquires exactly one cell of the rate
\* limiter before it sends its request: a call that is about to send holds
\* one cell, a call still inside until_ready holds none, and no call ever
\* holds more than one.
C11_AdmittedBeforeSend ==
    \A c \in Callers :
        /\ callers[c].pc = "send" => callers[c].cells = 1
        /\ callers[c].pc = "until_ready" => callers[c].cells = 0
        /\ callers[c].cells <= 1
        /\ callers[c].pc # "idle" => callers[c].op \in Operations

\* C11 witness: a replaceRecord that had to wait for its cell and a
\* getRecord are both about to send, each with its one cell.
C11_Witness ==
    \E c, d \in Callers :
        /\ callers[c].pc = "send" /\ callers[c].op = "update_user_details"
        /\ callers[c].delayed /\ callers[c].cells = 1
        /\ callers[d].pc = "send" /\ callers[d].op = "get_user_details"
        /\ callers[d].cells = 1

\* C12: with the callers sharing one client, the admissions in any window
\* of time never exceed the burst ceiling plus the rate times the length
\* of the window: any n admissions in a row span at least
\* (n - MAX_BURST) replenish intervals.
C12_AdmissionBound ==
    \A i, j \in 1 .. Len(recent) :
        (i <= j /\ recent[j] < AgeCap) =>
            (j - i + 1 - MAX_BURST) * REPLENISH_1_PER <= recent[j] - recent[i]

\* C12 witness: the callers took a whole burst and then as many cells as
\* the rate allows: the latest MAX_BURST + MaxWindow admissions span exactly
\* MaxWindow intervals, the last of them by a caller that had to wait.
C12_Witness ==
    /\ Len(recent) = RecentLen
    /\ recent[RecentLen] - recent[1] = MaxWindow * REPLENISH_1_PER
    /\ recent[2] > recent[1]
    /\ \E c \in Callers : callers[c].pc = "send" /\ callers[c].delayed

Returned == client_call.result.k # "Pending"

\* the call was answered by a decodable listing: a response outside 4xx and
\* 5xx whose body is a users document
AnsweredByListing ==
    /\ client_call.exchange.sent
    /\ ~is_client_error(client_call.exchange.status)
    /\ ~is_server_error(client_call.exchange.status)
    /\ client_call.exchange.body.k = "listing"

\* the users element of the listing is there and carries a total that parses
ListingHasTotal ==
    /\ client_call.exchange.body.outer # "absent"
    /\ client_call.exchange.body.total # None

\* the call returned exactly the ids and the total the document was written
\* from
ReturnsIdsAndTotal ==
    /\ client_call.result.k = "Ok"
    /\ client_call.result.v.user_ids = client_call.exchange.body.ids
    /\ Some(client_call.result.v.total_users) = client_call.exchange.body.total

\* C14: decoding a listing body whose users element has the total-count
\* attribute V and which contains N primary_id elements, N >= 0, with text
\* and other elements in between, yields exactly those N ids in document
\* order and the total V.
C14_DecoderRoundTrip ==
    (/\ client_call.op = "get_user_ids_and_total_count"
     /\ Returned
     /\ AnsweredByListing
     /\ ListingHasTotal)
        => ReturnsIdsAndTotal

\* the same for the documents whose users element is written as a start tag
\* and an end tag
C14_RoundTripBetweenTags ==
    (/\ client_call.op = "get_user_ids_and_total_count"
     /\ Returned
     /\ AnsweredByListing
     /\ ListingHasTotal
     /\ client_call.exchange.body.outer = "start")
        => ReturnsIdsAndTotal

C14_BetweenTagsReached ==
    /\ client_call.op = "get_user_ids_and_total_count"
    /\ Returned
    /\ AnsweredByListing
    /\ client_call.exchange.body.outer = "start"
    /\ client_call.exchange.body.ids = <<"u2", "u1">>
    /\ client_call.result.k = "Ok"
    /\ client_call.result.v.total_users = 120

\* C15: when the listing body has no users element, or the element's
\* total-count attribute is absent or does not parse as a non-negative
\* integer, get_user_ids_and_total_count fails with the decode error of the
\* missing total: it returns neither ids nor a defaulted total.
C15_MissingTotalFails ==
    (/\ client_call.op = "get_user_ids_and_total_count"
     /\ Returned
     /\ AnsweredByListing
     /\ ~ListingHasTotal)
        => /\ client_call.result.k = "Err"
           /\ client_call.result.v = Message("failed to get total record count")

\* a document with two ids whose attribute does not parse has been decoded
C15_Witness ==
    /\ client_call.op = "get_user_ids_and_total_count"
    /\ Returned
    /\ AnsweredByListing
    /\ client_call.exchange.body.outer = "start"
    /\ client_call.exchange.body.ids = <<"u1", "u2">>
    /\ client_call.exchange.body.events[1].attrs = <<Attr("total_record_count", <<"-", "1">>)>>
    /\ client_call.result.k = "Err"

\* C16: get_user_ids succeeds with the ids in document order for any
\* well-formed successful listing body, whether or not the users element or
\* its total-count attribute is present; they are the ids that
\* get_user_ids_and_total_count returns for the same body whenever it
\* succeeds.
C16_IdsWithoutTotal ==
    (/\ client_call.op = "get_user_ids"
     /\ Returned
     /\ AnsweredByListing)
        => /\ client_call.result.k = "Ok"
           /\ client_call.result.v = client_call.exchange.body.ids
           /\ LET both == get_user_ids_and_total_count(client_call.exchange)
              IN  both.k = "Ok" => both.v.user_ids = client_call.result.v

\* two ids have been decoded from a document without a users element
C16_Witness ==
    /\ client_call.op = "get_user_ids"
    /\ Returned
    /\ AnsweredByListing
    /\ client_call.exchange.body.outer = "absent"
    /\ client_call.result.k = "Ok"
    /\ client_call.result.v = <<"u2", "u1">>

\* both operations have something to agree on: a document with a total and
\* two ids
C16_BothSucceedReached ==
    /\ client_call.op = "get_user_ids"
    /\ Returned
    /\ AnsweredByListing
    /\ get_user_ids_and_total_count(client_call.exchange).k = "Ok"
    /\ client_call.result.k = "Ok"
    /\ Len(client_call.result.v) = 2

\* the call is a call of get_user_details or update_user_details that has
\* returned
RecordCallReturned ==
    /\ client_call.op \in {"get_user_details", "update_user_details"}
    /\ Returned

\* the path that addresses the record of an id: every '#' of the id written
\* as %23
EncodedPath(user_id) == <<"u", "s", "e", "r", "s", "/">> \o replace_hash(user_id)

\* C17: the request path of get_user_details and of update_user_details has
\* every '#' of the record identifier replaced by '%23', so the path sent
\* holds no raw '#' and addresses the record of that identifier.
C17_HashEncodedInPath ==
    RecordCallReturned
        => /\ client_call.path = EncodedPath(client_call.arg)
           /\ \A i \in 1 .. Len(client_call.path) : client_call.path[i] # "#"

\* the same for the client of lib.rs alone
C17_LibEncodes ==
    (RecordCallReturned /\ client_call.client = "lib")
        => /\ client_call.path = EncodedPath(client_call.arg)
           /\ \A i \in 1 .. Len(client_call.path) : client_call.path[i] # "#"

C17_LibEncodesReached ==
    /\ RecordCallReturned
    /\ client_call.client = "lib"
    /\ client_call.arg = <<"a", "#">>
    /\ client_call.path = <<"u", "s", "e", "r", "s", "/", "a", "%", "2", "3">>

\* the call was answered by a response with a 4xx or 5xx status
AnsweredByError ==
    /\ client_call.exchange.sent
    /\ \/ is_client_error(client_call.exchange.status)
       \/ is_server_error(client_call.exchange.status)

\* what the operation of the call returns for an exchange
ResultOf(exchange) ==
    CASE client_call.op = "get_user_ids_and_total_count" ->
            get_user_ids_and_total_count(exchange)
      [] client_call.op = "get_user_ids" -> get_user_ids(exchange)
      [] client_call.op = "get_user_details" -> get_user_details(exchange)
      [] OTHER -> update_user_details(exchange)

\* C18: for every operation, a response with a 4xx or 5xx status never
\* yields a successful return value: the operation fails with the error of
\* check_error and the body is not decoded as a listing or a record; a
\* response with any other status is passed on to the decoding unchanged.
C18_ErrorStatusFailsTheCall ==
    (Returned /\ client_call.exchange.sent)
        => IF AnsweredByError
           THEN client_call.result.k = "Err"
           ELSE /\ check_error(client_call.exchange) = Ok(client_call.exchange)
                /\ client_call.result.k
                      = ResultOf([client_call.exchange EXCEPT !.status = 200]).k

\* no response with a 4xx or 5xx status yields a successful return value
C18_ErrorStatusNeverOk ==
    (Returned /\ AnsweredByError) => client_call.result.k # "Ok"

C18_NeverOkReached ==
    /\ Returned
    /\ AnsweredByError
    /\ client_call.op = "get_user_details"
    /\ client_call.exchange.status = 599
    /\ client_call.exchange.body.k = "record"
    /\ client_call.result.k = "Err"

\* C19: check_error never swallows an HTTP failure: for every response with
\* a 4xx or 5xx status the error it produces carries at least one AlmaError
\* or is a protocol error; it never produces an AlmaErrors holding an empty
\* list.
C19_NoEmptyErrorList ==
    (Returned /\ AnsweredByError /\ client_call.result.k = "Err")
        => \/ client_call.result.v.type = "message"
           \/ /\ client_call.result.v.type = "AlmaErrors"
              /\ Len(client_call.result.v.errors) >= 1

\* an error document with two error elements has been classified
C19_TwoErrorsReached ==
    /\ Returned
    /\ AnsweredByError
    /\ client_call.result.k = "Err"
    /\ client_call.result.v.type = "AlmaErrors"
    /\ Len(client_call.result.v.errors) = 2

\* the call was answered by an error response declared application/xml
\* whose body is an error document
AnsweredByXmlErrors ==
    /\ AnsweredByError
    /\ client_call.exchange.content_type # <<>>
    /\ Head(client_call.exchange.content_type) = "application/xml"
    /\ client_call.exchange.body.k = "xml"
    /\ "groups" \in DOMAIN client_call.exchange.body

\* the text of a field of an error element, "" when the element has none
FieldText(field) == IF field = None THEN "" ELSE CHOOSE text \in field : TRUE

\* the AlmaError values of the error elements of a document, in order
ErrorsOf(status_code, groups) ==
    [i \in 1 .. Len(groups) |->
        AlmaError(status_code, FieldText(groups[i].errorCode),
                  FieldText(groups[i].errorMessage), FieldText(groups[i].trackingId))]

\* C20: for an error response declared application/xml whose body contains
\* K error elements, check_error yields exactly K AlmaError values in
\* document order, the i-th with the errorCode, errorMessage and trackingId
\* text of the i-th element, each with the status code of the response.
C20_OneErrorPerGroup ==
    (Returned /\ AnsweredByXmlErrors)
        => /\ client_call.result.k = "Err"
           /\ client_call.result.v
                 = AlmaErrors(ErrorsOf(client_call.exchange.status,
                                       client_call.exchange.body.groups))

\* the same for the documents whose field elements all lie inside error
\* elements
C20_OneErrorPerGroupInside ==
    (Returned /\ AnsweredByXmlErrors /\ ~client_call.exchange.body.stray)
        => /\ client_call.result.k = "Err"
           /\ client_call.result.v
                 = AlmaErrors(ErrorsOf(client_call.exchange.status,
                                       client_call.exchange.body.groups))

C20_InsideReached ==
    /\ Returned
    /\ AnsweredByXmlErrors
    /\ ~client_call.exchange.body.stray
    /\ client_call.exchange.status = 500
    /\ Len(client_call.exchange.body.groups) = 2
    /\ client_call.exchange.body.groups[1] # client_call.exchange.body.groups[2]
    /\ client_call.result.k = "Err"
    /\ Len(client_call.result.v.errors) = 2

\* the call was answered by an error response declared application/json
\* whose body is the json document of a list of error elements
AnsweredByJsonErrors ==
    /\ AnsweredByError
    /\ client_call.exchange.content_type # <<>>
    /\ Head(client_call.exchange.content_type) = "application/json"
    /\ client_call.exchange.body.k = "json_error"
    /\ "groups" \in DOMAIN client_call.exchange.body

\* what check_error returns for the xml document of the same error
\* elements, sent with the same status
XmlCounterpart ==
    check_error(Http(client_call.exchange.status, XmlType,
                     ErrorDocument(FALSE, client_call.exchange.body.groups)))

\* every field of every error element is there
Complete(groups) ==
    \A i \in 1 .. Len(groups) :
        /\ groups[i].errorCode # None
        /\ groups[i].errorMessage # None
        /\ groups[i].trackingId # None

\* C21: for every list of K errors, the application/json error body that
\* is structurally equivalent to the application/xml body with those K
\* error elements is classified into the same K AlmaError values (code,
\* message, tracking id and status code equal) as the xml body.
C21_ClassifierDuality ==
    (Returned /\ AnsweredByJsonErrors)
        => /\ client_call.result.k = "Err"
           /\ client_call.result.v = XmlCounterpart.v

\* the same for the json documents that hold one member for each error,
\* every field of every error being there
C21_DualityOfCompleteMembers ==
    (/\ Returned
     /\ AnsweredByJsonErrors
     /\ client_call.exchange.body.form = "members"
     /\ Complete(client_call.exchange.body.groups))
        => /\ client_call.result.k = "Err"
           /\ client_call.result.v = XmlCounterpart.v

C21_CompleteMembersReached ==
    /\ Returned
    /\ AnsweredByJsonErrors
    /\ client_call.exchange.body.form = "members"
    /\ Complete(client_call.exchange.body.groups)
    /\ Len(client_call.exchange.body.groups) = 2
    /\ Len(client_call.result.v.errors) = 2

\* the array form with one complete error is classified into one AlmaError
\* whose three texts are "null"
C21_ArrayFormReached ==
    /\ Returned
    /\ AnsweredByJsonErrors
    /\ client_call.exchange.body.form = "array"
    /\ Len(client_call.exchange.body.groups) = 1
    /\ Complete(client_call.exchange.body.groups)
    /\ client_call.result.v.errors
          = <<AlmaError(client_call.exchange.status, "null", "null", "null")>>

\* one member per error, the error having only its code: the message and
\* the tracking id are "null" where the xml counterpart has empty strings
C21_MissingFieldReached ==
    /\ Returned
    /\ AnsweredByJsonErrors
    /\ client_call.exchange.body.form = "members"
    /\ Len(client_call.exchange.body.groups) = 1
    /\ client_call.result.v.errors
          = <<AlmaError(client_call.exchange.status, "INTERNAL", "null", "null")>>
    /\ XmlCounterpart.v.errors
          = <<AlmaError(client_call.exchange.status, "INTERNAL", "", "")>>

\* the error response has no content type, or one that is neither
\* application/xml nor application/json
UndeclaredOrOtherType ==
    \/ client_call.exchange.content_type = <<>>
    \/ Head(client_call.exchange.content_type)
          \notin {"application/xml", "application/json"}

\* the body of the error response is not a text of the type it declares
FailsToParseAsDeclared ==
    /\ client_call.exchange.content_type # <<>>
    /\ \/ /\ Head(client_call.exchange.content_type) = "application/json"
          /\ json_parse(client_call.exchange.body).k = "Err"
       \/ /\ Head(client_call.exchange.content_type) = "application/xml"
          /\ \E i \in 1 .. Len(events_of(client_call.exchange.body)) :
                 events_of(client_call.exchange.body)[i].e = "Malformed"

\* the call failed with a message that displays the status of the response
\* and its content type, where it has one
DescribesStatusAndContentType ==
    /\ client_call.result.k = "Err"
    /\ client_call.result.v.type = "message"
    /\ client_call.result.v.status_code = Some(client_call.exchange.status)
    /\ \/ client_call.exchange.content_type = <<>>
       \/ client_call.result.v.content_type
             = Some(client_call.exchange.content_type)

\* C22: when a 4xx/5xx response has no content-type header, declares a
\* media type other than application/xml or application/json, or has a
\* body that fails to parse as its declared type, the operation fails
\* with a generic error that describes the status code and the content
\* type.
C22_GenericProtocolError ==
    (Returned /\ AnsweredByError
       /\ (UndeclaredOrOtherType \/ FailsToParseAsDeclared))
        => DescribesStatusAndContentType

\* the same for the responses with no content type or another one
C22_OtherTypeDescribed ==
    (Returned /\ AnsweredByError /\ UndeclaredOrOtherType)
        => DescribesStatusAndContentType

C22_OtherTypeReached ==
    /\ Returned /\ AnsweredByError
    /\ client_call.exchange.content_type = <<"text/html">>
    /\ client_call.exchange.status = 599
    /\ client_call.result.v.status_code = Some(599)
    /\ client_call.result.v.content_type = Some(<<"text/html">>)

\* a body declared application/json that is no json fails the call with
\* the error of json::parse, which displays neither
C22_ParseErrorReached ==
    /\ Returned /\ AnsweredByError /\ FailsToParseAsDeclared
    /\ Head(client_call.exchange.content_type) = "application/json"
    /\ client_call.result.k = "Err"
    /\ client_call.result.v = Message("json")

\* the step of the run main is in; a main that returned the Err of the
\* first listing call, or unwound in it, ended in ListFirstPage
RunStep == IF mainPc \in {"Failed", "Panicked"} THEN "ListFirstPage" ELSE mainPc

RunOrder ==
    {<<"Start", "ListFirstPage">>, <<"ListFirstPage", "Dispatching">>,
     <<"Dispatching", "Collecting">>, <<"Collecting", "Done">>}

\* C27: a run passes through Start, ListFirstPage, Dispatching, Collecting,
\* Done in this order with no step skipped or revisited; no task of a page
\* is spawned before the first listing call has returned Ok, and no join
\* handle is awaited before every page of the range has been dispatched.
C27_RunStepsInOrder ==
    /\ [][RunStep' # RunStep => <<RunStep, RunStep'>> \in RunOrder]_vars
    /\ []((\E p \in Pages : tasks[p].pc # "unspawned")
            => /\ mainPc \in {"Dispatching", "Collecting", "Done"}
               /\ first_call # <<>>
               /\ first_call[1].res = "Ok")
    /\ []((awaited > 0 \/ reports # <<>>)
            => /\ mainPc \in {"Collecting", "Done"}
               /\ join_handles = ClaimedPages
               /\ \A i \in 1 .. Len(ClaimedPages) :
                      tasks[ClaimedPages[i]].pc # "unspawned")

\* a run over three pages is done: all three were dispatched, then joined
C27_Witness ==
    /\ mainPc = "Done"
    /\ Len(join_handles) = 3
    /\ awaited = 3
    /\ Len(reports) = 3

\* C28: when the users element carries a total_record_count attribute that
\* parses, get_user_ids_and_total_count returns that total in every form
\* the element can take in the stream, including a listing with no id
\* whose users element is empty (self-closing): it then returns an empty
\* id sequence with that total.
C28_TotalInEveryForm ==
    (/\ client_call.op = "get_user_ids_and_total_count"
     /\ Returned
     /\ AnsweredByListing
     /\ ListingHasTotal)
        => /\ client_call.result.k = "Ok"
           /\ Some(client_call.result.v.total_users) = client_call.exchange.body.total
           /\ client_call.exchange.body.outer = "empty"
                 => client_call.result.v.user_ids = <<>>

\* <users total_record_count="0"/> fails the call: the reader gives
\* Event::Empty for it, and the decoder looks for the attribute in
\* Event::Start only
C28_SelfClosingReached ==
    /\ client_call.op = "get_user_ids_and_total_count"
    /\ Returned
    /\ AnsweredByListing
    /\ client_call.exchange.body.outer = "empty"
    /\ client_call.exchange.body.total = Some(0)
    /\ client_call.result.k = "Err"
    /\ client_call.result.v.text = "failed to get total record count"

(***************************************************************************)
(* handle_user on one record: the GET, the edits, the PUT if the count of  *)
(* statistics differs, and handle_user again for the same id (the next run *)
(* of the pipeline, or the id once more in a file of rerun_users).         *)
(* client_call holds                                                       *)
(*   program       "main" for handle_user of main.rs, "lib" for the one of *)
(*                 lib.rs (bin.rs, rerun_users.rs)                         *)
(*   rules         the two sets the process read                           *)
(*   stored        the record the service holds for the id                 *)
(*   pc            "get", "put", or "returned"                             *)
(*   fetched       the document get_user_details returned, if any          *)
(*   user_details  the document after the edits, if any                    *)
(*   result        what handle_user returned, if it has                    *)
(*   runs          one entry for each handle_user that returned            *)
(***************************************************************************)
\* the records the service may hold for the id. Titles: none, lower and
\* upper case with a description, a value without description, a
\* description without value. Statistics: no array, the lists up to
\* MaxStats, and the list of three of RecStrip. Roles: no array, a role
\* whose parameter is no array, one role and two roles with parameters.
UserRecords ==
    LET UserTitles ==
            {[has_title |-> FALSE, title_value |-> JNull, title_desc |-> None],
             [has_title |-> TRUE, title_value |-> JStr(<<"D", "r">>),
              title_desc |-> Some(JStr("Doctor"))],
             [has_title |-> TRUE, title_value |-> JStr(<<"D", "R">>),
              title_desc |-> Some(JStr("Doctor"))],
             [has_title |-> TRUE, title_value |-> JStr(<<"D", "r">>),
              title_desc |-> None],
             [has_title |-> TRUE, title_value |-> JNull,
              title_desc |-> Some(JStr("Doctor"))]}
        UserGroups == {JStr("STAFF"), JStr("ALUMNI"), JNull}
        UserStatistics ==
            {Stat("External", "RESPONSIBILITY_CENTER"),
             Stat("External", "FULL_PART_TIME"),
             Stat("Internal", "RESPONSIBILITY_CENTER"),
             [segment_type |-> JStr("Internal"), category_value |-> JNull]}
        StatisticLists ==
            {JNull, RecStrip.user_statistic}
            \cup {JArr(s) : s \in SeqsUpTo(UserStatistics, MaxStats)}
        RoleParameters ==
            {Param(JStr("DEFAULT_CIRC_DESK"), JStr("Default Circulation Desk")),
             Param(JStr("MAIN"), JStr("")),
             Param(JStr("MAIN"), JStr("Main Library")),
             Param(JNull, JNull)}
        RoleLists ==
            {JNull, JArr(<<Role(JNull)>>)}
            \cup {JArr(<<Role(JArr(p))>>) : p \in SeqsUpTo(RoleParameters, MaxParams)}
            \cup {JArr(<<Role(JArr(p)),
                         Role(JArr(<<Param(JStr("DEFAULT_CIRC_DESK"), JStr("")),
                                     Param(JStr("MAIN"), JStr("Main Library"))>>))>>) :
                     p \in SeqsUpTo(RoleParameters, MaxParams)}
        UserRecord(title, group_value, user_statistic, user_role) ==
            [has_title |-> title.has_title, title_value |-> title.title_value,
             title_desc |-> title.title_desc, group_value |-> group_value,
             user_statistic |-> user_statistic, user_role |-> user_role]
    IN  {UserRecord(title, group_value, user_statistic, JNull) :
            title \in UserTitles, group_value \in UserGroups,
            user_statistic \in StatisticLists}
        \cup {UserRecord(title, JStr("STAFF"), user_statistic, user_role) :
                 title \in {t \in UserTitles :
                               t.title_desc # None /\ t.title_value.t = "str"},
                 user_statistic \in {RecStrip.user_statistic, RecPlain.user_statistic},
                 user_role \in RoleLists}

\* the sets a process may have read
RuleSets ==
    {Rules(categories_to_remove, external_user_groups) :
        categories_to_remove \in {{}, {"FULL_PART_TIME"},
                                  {"FULL_PART_TIME", "RESPONSIBILITY_CENTER"}},
        external_user_groups \in {{}, {"ALUMNI"}}}

\* the exchanges that can answer the GET for a record, and the PUT
FetchExchanges(stored) ==
    {Http(200, JsonType, RecordBody(stored)), TransportFailure,
     Http(500, <<>>, Garbage)}
StoreExchanges ==
    {Http(200, JsonType, Garbage), TransportFailure, Http(500, <<>>, Garbage)}

HandleUserInit ==
    /\ RunAtRest
    /\ rate_limiter = [l \in Limiters |-> 0]
    /\ callers = [c \in Callers |-> IdleCaller]
    /\ recent = <<>>
    /\ returned = 0
    /\ \E program \in {"main", "lib"}, rules \in RuleSets, stored \in UserRecords :
          client_call = [program |-> program, rules |-> rules, stored |-> stored,
                         pc |-> "get", fetched |-> <<>>, user_details |-> <<>>,
                         result |-> <<>>, runs |-> <<>>]

\* handle_user returns
Return(call, returns) ==
    [call EXCEPT !.pc = "returned",
                 !.result = <<returns>>,
                 !.runs = Append(@, [fetched |-> call.fetched,
                                     user_details |-> call.user_details,
                                     k |-> returns.k,
                                     updated |-> returns.k = "Ok" /\ returns.v])]

\* handle_user up to the await of update_user_details, or to its Ok(false),
\* or to the Err of get_user_details
HandleUserGet ==
    /\ client_call.pc = "get"
    /\ \E x \in FetchExchanges(client_call.stored) :
         LET r == get_user_details(x)
         IN  IF r.k # "Ok"
             THEN client_call' = Return(client_call, r)
             ELSE LET user_details == edited(client_call.program, client_call.rules, r.v)
                      held == [client_call EXCEPT !.fetched = <<r.v>>,
                                                  !.user_details = <<user_details>>]
                  IN  IF count_differs(r.v, user_details)
                      THEN client_call' = [held EXCEPT !.pc = "put"]
                      ELSE client_call' = Return(held, Ok(FALSE))
    /\ UNCHANGED <<runVars, rate_limiter, callers, recent, returned>>

\* update_user_details returns: Ok(true), or its Err through `?`; the
\* service holds the document it accepted
HandleUserPut ==
    /\ client_call.pc = "put"
    /\ \E x \in StoreExchanges :
         LET r == update_user_details(x)
         IN  IF r.k # "Ok"
             THEN client_call' = Return(client_call, r)
             ELSE client_call' =
                      Return([client_call EXCEPT !.stored = client_call.user_details[1]],
                             Ok(TRUE))
    /\ UNCHANGED <<runVars, rate_limiter, callers, recent, returned>>

\* handle_user is called for the same id once more
HandleUserAgain ==
    /\ client_call.pc = "returned"
    /\ Len(client_call.runs) < MaxRuns
    /\ client_call' = [client_call EXCEPT !.pc = "get", !.fetched = <<>>,
                                          !.user_details = <<>>, !.result = <<>>]
    /\ UNCHANGED <<runVars, rate_limiter, callers, recent, returned>>

HandleUserNext ==
    \/ HandleUserGet
    \/ HandleUserPut
    \/ HandleUserAgain

HandleUserSpec == HandleUserInit /\ [][HandleUserNext]_vars

(***************************************************************************)
(* Properties of handle_user on one record (HandleUserSpec).               *)
(***************************************************************************)
\* handle_user holds the fetched document, whose statistics are an array,
\* and has made its edits
Edited ==
    /\ client_call.fetched # <<>>
    /\ client_call.user_details # <<>>
    /\ client_call.fetched[1].user_statistic.t = "arr"

StatisticsIn == client_call.fetched[1].user_statistic.v
StatisticsOut == client_call.user_details[1].user_statistic.v

\* the category type of the statistic is in the removal set
InRemovalSet(statistic) ==
    /\ statistic.category_value.t = "str"
    /\ statistic.category_value.v \in client_call.rules.CATEGORIES_TO_REMOVE

\* the statistic is marked with the internal segment
IsInternal(statistic) ==
    /\ statistic.segment_type.t = "str"
    /\ statistic.segment_type.v = "Internal"

\* the group of the fetched record is in the set of the external groups
GroupIsExternal ==
    /\ client_call.fetched[1].group_value.t = "str"
    /\ client_call.fetched[1].group_value.v \in client_call.rules.EXTERNAL_USER_GROUPS

NotInRemovalSet(statistic) == ~InRemovalSet(statistic)

NeitherRuleApplies(statistic) ==
    /\ ~InRemovalSet(statistic)
    /\ ~(IsInternal(statistic) /\ GroupIsExternal)

\* handle_user told Changed: it went on to update_user_details, and
\* returns Ok(true) unless that call fails
ReportsChanged ==
    \/ client_call.pc = "put"
    \/ /\ client_call.pc = "returned"
       /\ (client_call.result[1].k = "Ok" => client_call.result[1].v)

\* C23 as stated: for any record and any removal set, the resulting
\* statistic list is exactly the input list with the entries whose
\* category-type value is in the removal set deleted, the remaining entries
\* keeping their original relative order, and the transform reports Changed
\* when at least one entry was deleted.
C23_OnlyRemovalSetDeleted ==
    Edited => /\ StatisticsOut = SelectSeq(StatisticsIn, NotInRemovalSet)
              /\ Len(StatisticsOut) < Len(StatisticsIn) => ReportsChanged

\* C23 amended: the resulting statistic list is exactly the input list with
\* the entries deleted whose category-type value is in the removal set or
\* which, the group of the record being an external group, are marked with
\* the internal segment; the remaining entries keep their original relative
\* order, and the transform reports Changed when at least one entry was
\* deleted.
C23_StatisticsPruned ==
    Edited => /\ StatisticsOut = SelectSeq(StatisticsIn, NeitherRuleApplies)
              /\ Len(StatisticsOut) < Len(StatisticsIn) => ReportsChanged

\* the three statistics RESPONSIBILITY_CENTER, FULL_PART_TIME, EMPLOYEE_DEPT
\* with the removal set {FULL_PART_TIME}: Changed, with RESPONSIBILITY_CENTER
\* and EMPLOYEE_DEPT left
C23_Witness ==
    /\ Edited
    /\ client_call.rules.CATEGORIES_TO_REMOVE = {"FULL_PART_TIME"}
    /\ StatisticsIn = <<Stat("External", "RESPONSIBILITY_CENTER"),
                        Stat("External", "FULL_PART_TIME"),
                        Stat("External", "EMPLOYEE_DEPT")>>
    /\ StatisticsOut = <<Stat("External", "RESPONSIBILITY_CENTER"),
                         Stat("External", "EMPLOYEE_DEPT")>>
    /\ client_call.pc = "returned"
    /\ client_call.result[1].k = "Ok"
    /\ client_call.result[1].v

\* an internal statistic of a record of an external group is deleted
\* though its category type is not in the removal set
C23_InternalDeletedReached ==
    /\ Edited
    /\ client_call.rules.CATEGORIES_TO_REMOVE = {"FULL_PART_TIME"}
    /\ GroupIsExternal
    /\ StatisticsIn = <<Stat("Internal", "RESPONSIBILITY_CENTER")>>
    /\ StatisticsOut = <<>>

\* C24: if the group of the record is in the set of the external groups,
\* every statistic marked with the internal segment is dropped, whatever
\* its category type; if the group is not in that set, an internal
\* statistic is dropped only when its category type is in the removal set.
C24_InternalStatistics ==
    Edited =>
        SelectSeq(StatisticsOut, IsInternal)
          = IF GroupIsExternal
            THEN <<>>
            ELSE SelectSeq(SelectSeq(StatisticsIn, IsInternal), NotInRemovalSet)

\* a record of an external group, the removal set being empty, lost its
\* internal statistic, which has no category type, and kept the other one
C24_Witness ==
    /\ Edited
    /\ GroupIsExternal
    /\ client_call.rules.CATEGORIES_TO_REMOVE = {}
    /\ \E i \in 1 .. Len(StatisticsIn) :
          IsInternal(StatisticsIn[i]) /\ StatisticsIn[i].category_value.t = "null"
    /\ \E i \in 1 .. Len(StatisticsIn) : ~IsInternal(StatisticsIn[i])
    /\ Len(StatisticsIn) = 2
    /\ Len(StatisticsOut) = 1

\* a record of no external group kept an internal statistic whose category
\* type is not in the removal set
C24_KeptReached ==
    /\ Edited
    /\ ~GroupIsExternal
    /\ client_call.rules.EXTERNAL_USER_GROUPS = {"ALUMNI"}
    /\ client_call.rules.CATEGORIES_TO_REMOVE = {"FULL_PART_TIME"}
    /\ StatisticsIn = <<Stat("Internal", "RESPONSIBILITY_CENTER")>>
    /\ StatisticsOut = StatisticsIn

\* the handle_user before the one under way, or before the last one that
\* returned, wrote its document back
WroteBack(i) == i >= 1 /\ client_call.runs[i].updated

\* C25: for every record and rule configuration, applying the transform to
\* the output of a first application reports Unchanged, so that handle_user
\* called again for a record it has written back issues no second
\* update_user_details for it.
C25_SecondRunUnchanged ==
    /\ Edited =>
          ~count_differs(client_call.user_details[1],
                         edited(client_call.program, client_call.rules,
                                client_call.user_details[1]))
    /\ (client_call.pc # "returned" /\ WroteBack(Len(client_call.runs)))
          => client_call.pc # "put"
    /\ \A i \in 2 .. Len(client_call.runs) :
          (WroteBack(i - 1) /\ client_call.runs[i].fetched # <<>>)
              => /\ client_call.runs[i].fetched = client_call.runs[i - 1].user_details
                 /\ client_call.runs[i].k = "Ok"
                 /\ ~client_call.runs[i].updated

\* handle_user of lib.rs deleted two statistics of a record and wrote it
\* back; called again it fetched that document and returned Ok(false)
C25_Witness ==
    /\ client_call.program = "lib"
    /\ Len(client_call.runs) = 2
    /\ client_call.runs[1].updated
    /\ Len(client_call.runs[1].fetched[1].user_statistic.v)
         = Len(client_call.runs[1].user_details[1].user_statistic.v) + 2
    /\ client_call.runs[2].fetched = client_call.runs[1].user_details
    /\ client_call.runs[2].k = "Ok"
    /\ ~client_call.runs[2].updated

\* handle_user holds the fetched document and has made its edits
Held == client_call.fetched # <<>> /\ client_call.user_details # <<>>

\* the count of the statistics after the edits is not the count before
CountDiffers ==
    /\ client_call.fetched[1].user_statistic.t = "arr"
    /\ Len(client_call.fetched[1].user_statistic.v)
         # Len(client_call.user_details[1].user_statistic.v)

\* C26 as stated: the transform reports Changed (and the record is written
\* back) if and only if the statistic count or any other field the rules
\* mutate (title removed or upper-cased, role parameters pruned) differs
\* from the input record.
C26_ChangedIffAnyDifference ==
    Held => (ReportsChanged <=> client_call.user_details[1] # client_call.fetched[1])

\* C26 amended: the transform reports Changed (and the record is written
\* back) if and only if the statistic count differs from the input
\* record's; a record whose title was removed or upper-cased or whose role
\* parameters were pruned, with no statistic deleted, is reported Unchanged
\* and not written back.
C26_ChangedIffCountDiffers ==
    /\ Held => (ReportsChanged <=> CountDiffers)
    /\ client_call.pc = "put" => Held
    /\ \A i \in 1 .. Len(client_call.runs) :
          client_call.runs[i].updated
              => /\ client_call.runs[i].fetched # <<>>
                 /\ Len(client_call.runs[i].fetched[1].user_statistic.v)
                      # Len(client_call.runs[i].user_details[1].user_statistic.v)

\* handle_user of lib.rs removed the title of a record and pruned a role
\* parameter, deleted no statistic and returned Ok(false)
C26_Witness ==
    /\ Held
    /\ client_call.program = "lib"
    /\ client_call.fetched[1].has_title
    /\ ~client_call.user_details[1].has_title
    /\ ~CountDiffers
    /\ client_call.pc = "returned"
    /\ client_call.result[1].k = "Ok"
    /\ ~client_call.result[1].v
    /\ client_call.stored = client_call.fetched[1]

\* a record whose statistics were pruned was written back
C26_WrittenBackReached ==
    /\ Held
    /\ CountDiffers
    /\ client_call.pc = "returned"
    /\ client_call.result[1].k = "Ok"
    /\ client_call.result[1].v
    /\ client_call.stored = client_call.user_details[1]
    /\ client_call.stored # client_call.fetched[1]

\* the title of the fetched record has a description
TitleHasDescription ==
    /\ client_call.fetched[1].has_title
    /\ client_call.fetched[1].title_desc # None

\* the title after the edits is what the rule makes of the fetched one
TitleNormalized ==
    IF ~TitleHasDescription
    THEN /\ ~client_call.user_details[1].has_title
         /\ client_call.user_details[1].title_value = JNull
         /\ client_call.user_details[1].title_desc = None
    ELSE /\ client_call.user_details[1].has_title
         /\ client_call.user_details[1].title_desc = client_call.fetched[1].title_desc
         /\ client_call.user_details[1].title_value.t = client_call.fetched[1].title_value.t
         /\ client_call.fetched[1].title_value.t = "str"
               => client_call.user_details[1].title_value.v
                    = to_uppercase(client_call.fetched[1].title_value.v)

\* C29: if the title of the record lacks a description the title is
\* removed from the record entirely; otherwise the value text of the title
\* is replaced by its upper-case form and nothing else in the title
\* changes.
C29_TitleNormalization ==
    Held => TitleNormalized

\* the same for handle_user of lib.rs
C29_TitleNormalizationOfLib ==
    (Held /\ client_call.program = "lib") => TitleNormalized

\* handle_user of lib.rs removed a title without description, and
\* upper-cased one with a description
C29_RemovedByLibReached ==
    /\ Held
    /\ client_call.program = "lib"
    /\ client_call.fetched[1].has_title
    /\ client_call.fetched[1].title_desc = None
    /\ ~client_call.user_details[1].has_title

C29_UpperCasedByLibReached ==
    /\ Held
    /\ client_call.program = "lib"
    /\ client_call.fetched[1].title_value = JStr(<<"D", "r">>)
    /\ client_call.user_details[1].title_value = JStr(<<"D", "R">>)
    /\ client_call.user_details[1].title_desc = Some(JStr("Doctor"))

\* handle_user of main.rs kept a title without description, upper-cased
C29_KeptByMainReached ==
    /\ Held
    /\ client_call.program = "main"
    /\ client_call.fetched[1].has_title
    /\ client_call.fetched[1].title_desc = None
    /\ client_call.fetched[1].title_value = JStr(<<"D", "r">>)
    /\ client_call.user_details[1].has_title
    /\ client_call.user_details[1].title_value = JStr(<<"D", "R">>)

\* the value of the parameter is the sentinel, or its description is the
\* empty string
SentinelOrNoDescription(param) ==
    \/ param.value_value.t = "str" /\ param.value_value.v = "DEFAULT_CIRC_DESK"
    \/ param.value_desc.t = "str" /\ param.value_desc.v = ""

Retained(param) == ~SentinelOrNoDescription(param)

RolesIn == client_call.fetched[1].user_role
RolesOut == client_call.user_details[1].user_role

\* C30: for every role of the record, the resulting parameter list is
\* exactly the input list without the parameters whose value is the
\* sentinel or whose description is the empty string; every other
\* parameter is retained, in the original order.
C30_RoleParametersPruned ==
    (Held /\ client_call.program = "lib")
        => /\ RolesOut.t = RolesIn.t
           /\ RolesIn.t = "arr"
                => /\ Len(RolesOut.v) = Len(RolesIn.v)
                   /\ \A i \in 1 .. Len(RolesIn.v) :
                         /\ RolesOut.v[i].parameter.t = RolesIn.v[i].parameter.t
                         /\ RolesIn.v[i].parameter.t = "arr"
                               => RolesOut.v[i].parameter.v
                                    = SelectSeq(RolesIn.v[i].parameter.v, Retained)

\* a record of two roles: the first lost a parameter with the sentinel and
\* one without description, the second kept its one ordinary parameter
C30_Witness ==
    /\ Held
    /\ client_call.program = "lib"
    /\ RolesIn.t = "arr"
    /\ Len(RolesIn.v) = 2
    /\ RolesIn.v[1].parameter.v
         = <<Param(JStr("DEFAULT_CIRC_DESK"), JStr("Default Circulation Desk")),
             Param(JStr("MAIN"), JStr(""))>>
    /\ RolesOut.v[1].parameter.v = <<>>
    /\ RolesOut.v[2].parameter.v = <<Param(JStr("MAIN"), JStr("Main Library"))>>

\* a is b with some of its members left out: the members of a are members
\* of b, equal field for field, in the order of b
RECURSIVE IsSubsequence(_, _)
IsSubsequence(a, b) ==
    IF a = <<>>
    THEN TRUE
    ELSE IF b = <<>>
         THEN FALSE
         ELSE IF Head(a) = Head(b)
              THEN IsSubsequence(Tail(a), Tail(b))
              ELSE IsSubsequence(a, Tail(b))

\* C31: statistic entries are only ever dropped, never individually
\* mutated: for every record and configuration, the statistic list after
\* the edits is a subsequence of the fetched list, each entry kept being
\* equal, field for field, to the entry it came from.
C31_OnlyDropped ==
    Held => /\ client_call.user_details[1].user_statistic.t
                 = client_call.fetched[1].user_statistic.t
            /\ Edited => IsSubsequence(StatisticsOut, StatisticsIn)

\* of three statistics the middle one was dropped and the two others are
\* there as they were fetched, by handle_user of lib.rs
C31_Witness ==
    /\ Edited
    /\ client_call.program = "lib"
    /\ Len(StatisticsIn) = 3
    /\ StatisticsOut = <<StatisticsIn[1], StatisticsIn[3]>>
    /\ StatisticsIn[1] # StatisticsIn[2]
    /\ StatisticsIn[3] # StatisticsIn[2]

\* the statistic has no string as its category type
NoCategory(statistic) == statistic.category_value.t # "str"

\* the statistic has no string as its category type and the rule of the
\* external groups does not apply to it
NoCategoryAndNotExternal(statistic) ==
    NoCategory(statistic) /\ ~(IsInternal(statistic) /\ GroupIsExternal)

\* C32: missing sub-fields are handled permissively: a statistic with no
\* string category-type value is retained by the category rule, a record
\* with no statistic list, group, title or role list is processed without
\* error, and handle_user never fails because a sub-field is absent: once
\* the record is fetched it returns Err only from update_user_details.
C32_MissingFieldsPermitted ==
    /\ Edited => SelectSeq(StatisticsOut, NoCategory)
                   = SelectSeq(StatisticsIn, NoCategoryAndNotExternal)
    /\ \A i \in 1 .. Len(client_call.runs) :
          LET run == client_call.runs[i]
          IN  run.fetched # <<>> =>
                 /\ run.user_details # <<>>
                 /\ run.k \in {"Ok", "Err"}
                 /\ run.k = "Err" =>
                       /\ run.fetched[1].user_statistic.t = "arr"
                       /\ Len(run.fetched[1].user_statistic.v)
                            # Len(run.user_details[1].user_statistic.v)
                 /\ run.fetched[1].user_statistic.t # "arr" =>
                       (run.k = "Ok" /\ ~run.updated)

\* a record without title, group and role list whose one statistic has no
\* category type: handle_user of lib.rs kept the statistic and returned
\* Ok(false), the removal set and the external groups being non-empty
C32_Witness ==
    /\ Edited
    /\ client_call.program = "lib"
    /\ client_call.rules = Rules({"FULL_PART_TIME"}, {"ALUMNI"})
    /\ ~client_call.fetched[1].has_title
    /\ client_call.fetched[1].group_value = JNull
    /\ client_call.fetched[1].user_role = JNull
    /\ Len(StatisticsIn) = 1
    /\ NoCategory(StatisticsIn[1])
    /\ StatisticsOut = StatisticsIn
    /\ client_call.pc = "returned"
    /\ client_call.result[1].k = "Ok"
    /\ ~client_call.result[1].v

\* a record without statistic list, title, group and role list was
\* processed by handle_user of main.rs and of lib.rs, which returned
\* Ok(false)
C32_NothingPresentReached ==
    /\ Held
    /\ client_call.fetched[1].user_statistic = JNull
    /\ ~client_call.fetched[1].has_title
    /\ client_call.fetched[1].group_value = JNull
    /\ client_call.fetched[1].user_role = JNull
    /\ client_call.pc = "returned"
    /\ client_call.result[1].k = "Ok"
    /\ ~client_call.result[1].v

\* the content type of the error response has parameters after its media
\* type, which is application/xml or application/json
DeclaredWithParameters ==
    /\ AnsweredByError
    /\ Len(client_call.exchange.content_type) > 1
    /\ Head(client_call.exchange.content_type)
          \in {"application/xml", "application/json"}

\* the response of the call with the parameters of its content type left out
WithoutParameters ==
    Http(client_call.exchange.status, <<Head(client_call.exchange.content_type)>>,
         client_call.exchange.body)

\* C33: check_error selects the format of the error from the content-type
\* header by the portion before the first ';' only: a header value
\* application/xml;<params> is classified exactly as application/xml, and
\* application/json;<params> exactly as application/json.
C33_ParametersIgnored ==
    (Returned /\ DeclaredWithParameters)
        => /\ client_call.result.k = ResultOf(WithoutParameters).k
           /\ client_call.result.v = ResultOf(WithoutParameters).v
           /\ client_call.result.k # "Ok"
           /\ client_call.result.k = "Err"
                 => client_call.result.v.text
                      # "Alma API error {} with unexpected content type {}"

\* an xml error document sent as application/xml;charset=UTF-8 gave the
\* AlmaError of its error element
C33_Witness ==
    /\ Returned
    /\ DeclaredWithParameters
    /\ client_call.exchange.content_type = <<"application/xml", "charset=UTF-8">>
    /\ client_call.exchange.body.k = "xml"
    /\ client_call.result.k = "Err"
    /\ client_call.result.v.type = "AlmaErrors"
    /\ Len(client_call.result.v.errors) = 1

\* a json error document sent as application/json;charset=UTF-8 gave the
\* AlmaError of its member
C33_JsonReached ==
    /\ Returned
    /\ DeclaredWithParameters
    /\ client_call.exchange.content_type = <<"application/json", "charset=UTF-8">>
    /\ client_call.exchange.body.k = "json_error"
    /\ client_call.result.k = "Err"
    /\ client_call.result.v.type = "AlmaErrors"
    /\ Len(client_call.result.v.errors) = 1

\* C34: for any application/xml error body, including one in which an
\* errorCode, errorMessage or trackingId element comes before any error
\* element, check_error ends by returning an Err and never by a panic of
\* the task that called it, so that one malformed error body cannot stop
\* the remaining ids of its page.
C34_NoTaskUnwinds ==
    /\ mainPc # "Panicked"
    /\ \A p \in Pages : tasks[p].pc # "panicked"

\* a task unwound in the GET of the first of its two ids: the second id
\* was never fetched, and the join loop reported a JoinError for the page
C34_IdsLeftReached ==
    \E p \in Pages :
        /\ tasks[p].pc = "panicked"
        /\ Len(tasks[p].user_ids) = 2
        /\ tasks[p].next = 1
        /\ CallsOf(p, "get") = {Len(calls[p])}
        /\ \E i \in 1 .. Len(reports) :
              reports[i].offset = p /\ reports[i].kind = "JoinError"

(***************************************************************************)
(* The sequential build of bin/bin.rs (without the feature "concurrent"):  *)
(* main processes the pages one after the other in the one task it is.     *)
(* The server is given by its answers: fetch[id] to GET users/{id},        *)
(* replace[id] to PUT users/{id}, list[page] to the listing of a page.     *)
(***************************************************************************)
\* handle_user_batch of bin/bin.rs run to its end over user_ids, starting
\* from the counts in counted; a panic in a call unwinds it.  Of the edits
\* of handle_user only the retain changes the length stats_count is compared
\* with, so the retain alone decides the PUT
RECURSIVE sequential_batch(_, _, _, _)
sequential_batch(user_ids, fetch, replace, counted) ==
    IF user_ids = <<>>
    THEN [k |-> "Ok", users_updated |-> counted.users_updated, errors |-> counted.errors]
    ELSE LET user_id == Head(user_ids)
             fetched == fetch[user_id]
             updated == [counted EXCEPT !.users_updated = @ + 1]
             failed == [counted EXCEPT !.errors = @ + 1]
         IN  CASE fetched.k = "Ok" ->
                    IF count_differs(fetched.v, strip_statistics(fetched.v))
                    THEN CASE replace[user_id].k = "Ok" ->
                                 sequential_batch(Tail(user_ids), fetch, replace, updated)
                           [] replace[user_id].k = "Err" ->
                                 sequential_batch(Tail(user_ids), fetch, replace, failed)
                           [] OTHER -> [k |-> "Panic"]
                    ELSE sequential_batch(Tail(user_ids), fetch, replace, counted)
               [] fetched.k = "Err" ->
                    sequential_batch(Tail(user_ids), fetch, replace, failed)
               [] OTHER -> [k |-> "Panic"]

\* main of bin/bin.rs after the first listing returned first_ids: the
\* "Batch {}: {} users updated. {} errors." lines it writes, in order, up to
\* its return or to the panic that ends the process
sequential_main(from_offset, last, first_ids, list, fetch, replace) ==
    LET zero == [users_updated |-> 0, errors |-> 0]
        line(page, counted) ==
            [offset |-> page, kind |-> "Ok", users_updated |-> counted.users_updated,
             errors |-> counted.errors]
        RECURSIVE batches(_, _)
        batches(page, lines) ==
            IF page > last
            THEN lines
            ELSE CASE list[page].k = "Ok" ->
                        LET counted == sequential_batch(list[page].v, fetch, replace, zero)
                        IN  IF counted.k = "Ok"
                            THEN batches(page + 1, Append(lines, line(page, counted)))
                            ELSE lines
                   [] list[page].k = "Err" ->
                        batches(page + 1, Append(lines, line(page, zero)))
                   [] OTHER -> lines
        first == sequential_batch(first_ids, fetch, replace, zero)
    IN  IF first.k = "Ok"
        THEN batches(from_offset + 1, <<line(from_offset, first)>>)
        ELSE <<>>

\* the answers the server gave in this run: by the assumption of C35 they
\* depend on the request and on the earlier calls for the same record only,
\* so the sequential run gets the same answer to the same request
GetCalls == {c \in UNION {{calls[p][i] : i \in 1 .. Len(calls[p])} : p \in Pages} : c.op = "get"}
PutCalls == {c \in UNION {{calls[p][i] : i \in 1 .. Len(calls[p])} : p \in Pages} : c.op = "put"}
FetchAnswers ==
    [id \in {c.arg : c \in GetCalls} |->
        LET c == CHOOSE c \in GetCalls : c.arg = id IN [k |-> c.res, v |-> c.doc]]
ReplaceAnswers ==
    [id \in {c.arg : c \in PutCalls} |->
        LET c == CHOOSE c \in PutCalls : c.arg = id IN [k |-> c.res]]
ListAnswers ==
    [p \in {q \in Pages : CallsOf(q, "list") # {}} |->
        [k |-> calls[p][1].res, v |-> tasks[p].user_ids]]

\* the lines the sequential build writes over the pages of this run against
\* the server of this run
SequentialLines ==
    sequential_main(options.from_offset, last_offset, tasks[options.from_offset].user_ids,
                    ListAnswers, FetchAnswers, ReplaceAnswers)

\* every record is fetched at most once and replaced at most once in the
\* whole run, so the earlier calls for a record are the same in both runs
OneCallPerRecord ==
    /\ \A c, d \in GetCalls : c.arg = d.arg => c = d
    /\ \A c, d \in PutCalls : c.arg = d.arg => c = d
    /\ \A p, q \in Pages : \A i \in 1 .. Len(calls[p]) : \A j \in 1 .. Len(calls[q]) :
          (calls[p][i].op = calls[q][j].op /\ calls[p][i].arg = calls[q][j].arg
           /\ calls[p][i].op # "list") => (p = q /\ i = j)

\* C35 as stated: whatever the interleaving of the tasks was, once main has
\* collected them the per-page (updated, errors) results of the concurrent
\* run are those the sequential page-by-page run gives over the same pages
\* against the same server.
C35_ConcurrentEqualsSequential ==
    mainPc = "Done" => reports = SequentialLines

\* the part of C35 that holds: the sequential results are the concurrent
\* ones up to the first page whose task unwound, each record is called for
\* once, and the two runs agree on every page when no task unwound
C35_EqualUpToFirstUnwinding ==
    mainPc = "Done" =>
        /\ OneCallPerRecord
        /\ IsPrefix(SequentialLines, reports)
        /\ \A i \in 1 .. Len(SequentialLines) : reports[i].kind = "Ok"
        /\ Len(SequentialLines) < Len(reports) =>
               reports[Len(SequentialLines) + 1].kind = "JoinError"

\* C35 failing input reached: the task of the first page unwound and a later
\* page was processed and reported with its counts, which the sequential run
\* never gets to
C35_LaterPageOnlyConcurrent ==
    /\ mainPc = "Done"
    /\ Len(reports) >= 2
    /\ reports[1].kind = "JoinError"
    /\ reports[2].kind = "Ok" /\ reports[2].users_updated = 1
    /\ SequentialLines = <<>>

\* both runs agree on a run of two pages with an update and an error
C35_AgreementReached ==
    /\ mainPc = "Done"
    /\ Len(reports) >= 2
    /\ reports = SequentialLines
    /\ \E i \in 1 .. Len(reports) : reports[i].users_updated >= 1
    /\ \E i \in 1 .. Len(reports) : reports[i].errors >= 1

\* the replaceRecord calls of page p that returned successfully
SuccessfulReplaces(p) == {i \in CallsOf(p, "put") : calls[p][i].res = "Ok"}

\* the fetch and replace calls of page p that did not succeed
FailedCalls(p) ==
    {i \in CallsOf(p, "get") \cup CallsOf(p, "put") : calls[p][i].res # "Ok"}

\* the fetch and replace calls of page p that returned an error value
ErrCalls(p) ==
    {i \in CallsOf(p, "get") \cup CallsOf(p, "put") : calls[p][i].res = "Err"}

\* no id of page p is behind two of the calls in the set
OncePerId(p, counted) ==
    \A i, j \in counted : calls[p][i].arg = calls[p][j].arg => i = j

\* C36 as stated: the updated count a page is reported with is the number of
\* its ids whose replace call returned successfully, its error count is the
\* number of its ids whose fetch or replace failed, and no id is behind both
\* counters or behind one of them twice.
C36_CountsAreCallOutcomes ==
    \A n \in 1 .. Len(reports) :
        LET p == reports[n].offset
        IN  /\ reports[n].users_updated = Cardinality(SuccessfulReplaces(p))
            /\ reports[n].errors = Cardinality(FailedCalls(p))
            /\ OncePerId(p, SuccessfulReplaces(p) \cup FailedCalls(p))

\* the part of C36 that holds: at every moment the counters of a task are
\* the number of successful replaces and the number of calls that returned
\* an error value, one id behind each, and a page whose task returned is
\* reported with them
C36_CountsOfReturnedCalls ==
    /\ \A p \in Pages :
          /\ tasks[p].users_updated = Cardinality(SuccessfulReplaces(p))
          /\ tasks[p].errors = Cardinality(ErrCalls(p))
          /\ OncePerId(p, SuccessfulReplaces(p) \cup ErrCalls(p))
    /\ \A n \in 1 .. Len(reports) :
          reports[n].kind = "Ok" =>
              /\ reports[n].users_updated = tasks[reports[n].offset].users_updated
              /\ reports[n].errors = tasks[reports[n].offset].errors
              /\ FailedCalls(reports[n].offset) = ErrCalls(reports[n].offset)

\* C36 failing input reached: a page whose first id was replaced
\* successfully and whose second fetch unwound the task is reported without
\* counts
C36_UpdateNotReported ==
    \E n \in 1 .. Len(reports) :
        /\ reports[n].kind = "JoinError"
        /\ Cardinality(SuccessfulReplaces(reports[n].offset)) = 1
        /\ reports[n].users_updated = 0

\* a page is reported with one update and one error, the error being a
\* replace that failed
C36_BothCountersReached ==
    \E n \in 1 .. Len(reports) :
        /\ reports[n].kind = "Ok"
        /\ reports[n].users_updated = 1 /\ reports[n].errors = 1
        /\ \E i \in CallsOf(reports[n].offset, "put") :
              calls[reports[n].offset][i].res = "Err"

\* the first listing call of main returned Ok
FirstListingSucceeded == first_call # <<>> /\ first_call[1].res = "Ok"

\* the explicit end page is smaller than `from`, or `from` exceeds T div L
NoLaterPage ==
    \/ options.to_offset # None /\ unwrap_or(options.to_offset, 0) < options.from_offset
    \/ options.from_offset > FirstTotal \div LIMIT

\* C37: in every run whose first listing call succeeded page `from` is
\* processed exactly once: it is the first join handle and the only one for
\* that page, its task is started with the ids of the first listing and
\* makes no listing call, and none of these ids is fetched twice; when the
\* end page is smaller than `from` or `from` exceeds T div L no other page
\* is dispatched.
C37_FirstPageExactlyOnce ==
    FirstListingSucceeded =>
        LET from == options.from_offset
        IN  /\ join_handles # <<>> /\ join_handles[1] = from
            /\ Cardinality({i \in 1 .. Len(join_handles) : join_handles[i] = from}) = 1
            /\ tasks[from].pc \notin {"unspawned", "list"}
            /\ tasks[from].user_ids = first_call[1].exchange[1].body.ids
            /\ CallsOf(from, "list") = {}
            /\ \A i, j \in CallsOf(from, "get") :
                  calls[from][i].arg = calls[from][j].arg => i = j
            /\ tasks[from].pc = "done" =>
                  {calls[from][i].arg : i \in CallsOf(from, "get")}
                      = {tasks[from].user_ids[i] : i \in 1 .. Len(tasks[from].user_ids)}
            /\ NoLaterPage =>
                  /\ join_handles = <<from>>
                  /\ \A p \in Pages \ {from} : tasks[p].pc = "unspawned" /\ calls[p] = <<>>

\* C37 witness: from = 1 with the end page 0 and T = 4: the run is done,
\* page 1 alone was dispatched and its two ids were fetched.
C37_Witness ==
    /\ mainPc = "Done"
    /\ options.from_offset = 1
    /\ options.to_offset = Some(0)
    /\ FirstTotal = 4
    /\ join_handles = <<1>>
    /\ Cardinality(CallsOf(1, "get")) = 2
    /\ Len(reports) = 1

\* from = 1 exceeds T div L for T = 1: the first listing returned no id and
\* the run is done with page 1 alone
C37_FromBeyondTotalReached ==
    /\ mainPc = "Done"
    /\ options.from_offset = 1
    /\ options.to_offset = None
    /\ FirstTotal = 1
    /\ join_handles = <<1>>
    /\ tasks[1].user_ids = <<>>

\* the pages dispatched after the first one
LaterPages == {join_handles[i] : i \in 2 .. Len(join_handles)}

\* C38 as stated: every page dispatched after the first starts at an offset
\* page * LIMIT strictly smaller than the total T the first listing
\* returned, so no task and no listing call is spent on a page that lies
\* entirely beyond the last record.
C38_LaterPagesBelowTotal ==
    \A p \in LaterPages : p * LIMIT < FirstTotal

\* the part of C38 that holds: a later page starts at or below T; it starts
\* at T only when T is a multiple of LIMIT and the page is T div LIMIT, and
\* every other later page holds at least one record
C38_LaterPagesUpToTotal ==
    \A p \in LaterPages :
        /\ p * LIMIT <= FirstTotal
        /\ p * LIMIT = FirstTotal => (FirstTotal % LIMIT = 0 /\ p = last_offset)
        /\ (tasks[p].pc \notin {"list", "panicked"} /\ calls[p][1].res = "Ok") =>
              (tasks[p].user_ids = <<>> <=> p * LIMIT = FirstTotal)

\* C38 failing input reached: T = 4 and LIMIT = 2: page 2 was dispatched,
\* its task listed the slice at offset 4 = T, got no id and returned
C38_EmptyPageListed ==
    /\ FirstListingSucceeded
    /\ FirstTotal = 4
    /\ 2 \in LaterPages
    /\ CallsOf(2, "list") = {1}
    /\ calls[2][1].arg = 4 /\ calls[2][1].res = "Ok"
    /\ tasks[2].pc = "done" /\ tasks[2].user_ids = <<>>

====
